---- MODULE Spec2Model ----
(***************************************************************************)
(* A small-step model of the JSON parser library json_parser.c:            *)
(* json_parse and the productions below it (explicit call stack, one       *)
(* action per C function), the heap with malloc/calloc/realloc/free, the   *)
(* serializer json_print_value and the accessors.                          *)
(*                                                                         *)
(* Bytes are the integers 0..255.  Addresses are indices into heap; NULL   *)
(* is 0.  position is 0-based as in the C code, so input byte i is         *)
(* input[i+1].                                                             *)
(***************************************************************************)
EXTENDS Integers, Sequences, FiniteSets, TLC

\* ---- program constants (json_parser.c:20-23) ----
MAX_DEPTH == 128
INITIAL_CAPACITY == 16
MAX_STRING_SIZE == 2097152
MAX_NUMBER_SIZE == 64

NULL == 0
ERANGE == 34

\* ---- JsonType (json_parser.h) ----
JSON_NULL == "JSON_NULL"
JSON_BOOLEAN == "JSON_BOOLEAN"
JSON_NUMBER == "JSON_NUMBER"
JSON_STRING == "JSON_STRING"
JSON_ARRAY == "JSON_ARRAY"
JSON_OBJECT == "JSON_OBJECT"

\* ---- bytes ----
ChTAB == 9
ChLF == 10
ChCR == 13
ChSP == 32
ChQUOTE == 34
ChPLUS == 43
ChCOMMA == 44
ChMINUS == 45
ChDOT == 46
ChSLASH == 47
Ch0 == 48
Ch9 == 57
ChCOLON == 58
ChUpA == 65
ChUpE == 69
ChUpF == 70
ChLBRACKET == 91
ChBACKSLASH == 92
ChRBRACKET == 93
Cha == 97
Chb == 98
Che == 101
Chf == 102
Chl == 108
Chn == 110
Chr == 114
Chs == 115
Cht == 116
Chu == 117
ChLBRACE == 123
ChRBRACE == 125

LitNull == <<Chn, Chu, Chl, Chl>>
LitTrue == <<Cht, Chr, Chu, Che>>
LitFalse == <<Chf, Cha, Chl, Chs, Che>>

\* <ctype.h> isdigit in the C locale
isdigit(c) == c >= Ch0 /\ c <= Ch9

\* ---- generic sequence helpers ----
RECURSIVE Concat(_)
Concat(ss) == IF ss = <<>> THEN <<>> ELSE Head(ss) \o Concat(Tail(ss))

Repeat(s, n) == [i \in 1..(n * Len(s)) |-> s[((i - 1) % Len(s)) + 1]]

SeqsUpTo(S, n) == UNION {[1..k -> S] : k \in 0..n}

Last(s) == s[Len(s)]
Front(s) == SubSeq(s, 1, Len(s) - 1)

\* A text (an input, the contents of a character buffer) is a sequence of
\* bytes.  A long run of one byte is written as one element, Packed(b, n):
\* n consecutive bytes b.  A byte is the run of length 1 of itself.
Packed(b, n) == 256 * (n - 1) + b
ByteOf(e) == e % 256
TimesOf(e) == (e \div 256) + 1
IsRun(e) == e >= 256
\* the number of bytes of a text whose first element only may be a long run
RealLen(text) == IF text = <<>> THEN 0 ELSE Len(text) + TimesOf(text[1]) - 1

\* the C string held in a byte buffer: the bytes before the first NUL
RECURSIVE CStr(_)
CStr(bytes) ==
    IF bytes = <<>> \/ Head(bytes) = 0 THEN <<>>
    ELSE (IF IsRun(Head(bytes)) THEN Repeat(<<ByteOf(Head(bytes))>>, TimesOf(Head(bytes)))
          ELSE <<Head(bytes)>>) \o CStr(Tail(bytes))


\* ---- the heap --------------------------------------------------------------
\* A block is one allocation.  kind "value" is a JsonValue struct (type,
\* boolean, number, ptr = data.string / data.array.items / data.object.pairs,
\* count, capacity); kind "chars" is a byte buffer, "items" a JsonValue*
\* array, "pairs" a JsonPair array (data holds the bytes / slots).  frees
\* counts the calls of free() on the block; by is the thread that allocated.
NumZero == [neg |-> FALSE, digits |-> <<>>, exp |-> 0]

Block(kind, t) ==
    [kind |-> kind, frees |-> 0, by |-> t, type |-> "", boolean |-> FALSE,
     number |-> NumZero, ptr |-> NULL, count |-> 0, capacity |-> 0, data |-> <<>>]

NullPair == [key |-> NULL, value |-> NULL]

\* a memory state: the heap, the memory-safety violations seen so far, and the
\* number of allocations that failed in the current step
Violate(m, what) == [m EXCEPT !.viol = @ \cup {what}]

\* every read or write through a pointer
Touch(m, a) ==
    IF a = NULL THEN Violate(m, "null_deref")
    ELSE IF m.heap[a].frees > 0 THEN Violate(m, "use_after_free")
    ELSE m

\* an allocation that fails
AllocFails(m) == [m EXCEPT !.spent = @ + 1]

\* malloc/calloc: the new block's address is the next index
malloc(m, blk) == [m EXCEPT !.heap = Append(@, blk)]
LastAlloc(m) == Len(m.heap)

\* the number of bytes or slots a block holds
BlockLen(block) == IF block.kind = "chars" THEN RealLen(block.data) ELSE Len(block.data)

\* free(3): free(NULL) is a no-op; a second free of a block is recorded
free(m, a) ==
    IF a = NULL THEN m
    ELSE [m EXCEPT !.heap[a].frees = @ + 1,
                   !.viol = IF m.heap[a].frees > 0 THEN @ \cup {"double_free"} ELSE @]

\* realloc(3) that succeeds: the block moves (old block released, contents
\* copied, the added slots hold `fill`, indeterminate in C)
realloc(m, a, cap, fill) ==
    LET old == m.heap[a]
        size == BlockLen(old)
        grown == [old EXCEPT !.frees = 0,
                             !.capacity = cap,
                             !.data = IF size = cap THEN old.data
                                      ELSE IF size > cap THEN SubSeq(old.data, 1, cap)
                                      ELSE old.data \o [i \in 1..(cap - size) |-> fill]]
    IN malloc(free(Touch(m, a), a), grown)

\* json_value_create: okNode / okData say whether the two calloc calls succeed
json_value_create(m, t, type, okNode, okData) ==
    IF ~okNode THEN [m |-> AllocFails(m), ptr |-> NULL]
    ELSE
      LET m1 == malloc(m, [Block("value", t) EXCEPT !.type = type])
          value == LastAlloc(m1)
      IN IF type \in {JSON_ARRAY, JSON_OBJECT} THEN
           IF ~okData THEN [m |-> free(AllocFails(m1), value), ptr |-> NULL]
           ELSE
             LET slots == IF type = JSON_ARRAY
                          THEN [i \in 1..INITIAL_CAPACITY |-> NULL]
                          ELSE [i \in 1..INITIAL_CAPACITY |-> NullPair]
                 m2 == malloc(m1, [Block(IF type = JSON_ARRAY THEN "items" ELSE "pairs", t)
                                     EXCEPT !.capacity = INITIAL_CAPACITY, !.data = slots])
             IN [m |-> [m2 EXCEPT !.heap[value].capacity = INITIAL_CAPACITY,
                                  !.heap[value].ptr = LastAlloc(m2)],
                 ptr |-> value]
         ELSE [m |-> m1, ptr |-> value]

\* json_value_free: post-order release of a tree.  The C recursion is run on
\* an explicit call stack `todo`: a frame is one activation, value its
\* argument and i the index of its loop.
FreeFrame(value) == [value |-> value, i |-> 0]

\* one activation runs to its next call or to its return
json_value_free_step(s) ==
    LET f == s.todo[Len(s.todo)]
        callers == SubSeq(s.todo, 1, Len(s.todo) - 1)
        m0 == Touch(s.m, f.value)
        v == m0.heap[f.value]
    IN CASE v.type = JSON_STRING ->
              [m |-> free(free(m0, v.ptr), f.value), todo |-> callers]
         [] v.type \in {JSON_ARRAY, JSON_OBJECT} ->
              IF f.i < v.count
              THEN LET m1 == Touch(m0, v.ptr)
                       slot == m1.heap[v.ptr].data[f.i + 1]
                       child == IF v.type = JSON_ARRAY THEN slot ELSE slot.value
                       m2 == IF v.type = JSON_ARRAY THEN m1 ELSE free(m1, slot.key)
                   IN [m |-> m2,
                       todo |-> Append(callers, [f EXCEPT !.i = @ + 1])
                                \o (IF child = NULL THEN <<>> ELSE <<FreeFrame(child)>>)]
              ELSE [m |-> free(free(m0, v.ptr), f.value), todo |-> callers]
         [] OTHER -> [m |-> free(m0, f.value), todo |-> callers]

RECURSIVE FreeRun(_, _)
\* up to n steps, stopping when the outermost activation has returned
FreeRun(s, n) ==
    IF s.todo = <<>> THEN s
    ELSE IF n <= 1 THEN json_value_free_step(s)
    ELSE LET half == FreeRun(s, n \div 2)
         IN IF half.todo = <<>> THEN half ELSE FreeRun(half, n - (n \div 2))

json_value_free(m, value) ==
    IF value = NULL THEN m
    ELSE FreeRun([m |-> m, todo |-> <<FreeFrame(value)>>], 2 * Len(m.heap) + 2).m

\* ---- the scanner -----------------------------------------------------------
\* Parser struct (json_parser.c:25-33); error is the diagnostic last written
\* by snprintf: its message kind and the line/column printed in it.
NoError == [kind |-> "", line |-> 0, column |-> 0]

\* where the long run of an input is (its element, 0 for none) and how many
\* bytes it adds to the number of elements
RunOf(input) ==
    LET runs == {i \in 1..Len(input) : IsRun(input[i])}
    IN IF runs = {} THEN [at |-> 0, extra |-> 0]
       ELSE LET at == CHOOSE i \in runs : \A j \in runs : i <= j
            IN [at |-> at, extra |-> TimesOf(input[at]) - 1]

\* strlen(input)
strlen(input) == Len(input) + RunOf(input).extra

NewParser(input) ==
    [input |-> input, position |-> 0, length |-> strlen(input),
     line |-> 1, column |-> 1, error |-> NoError, depth |-> 0, run |-> RunOf(input)]

\* snprintf(parser->error, ..., "<kind> at line %d, column %d", line, column)
SetError(p, kind) ==
    [p EXCEPT !.error = [kind |-> kind, line |-> p.line, column |-> p.column]]

\* parser->input[i]; index length is the terminating NUL of the C string
ElementAt(p, i) ==
    IF p.run.at = 0 \/ i < p.run.at - 1 THEN i + 1
    ELSE IF i < p.run.at + p.run.extra THEN p.run.at
    ELSE i + 1 - p.run.extra
InputAt(p, i) == IF i < p.length THEN ByteOf(p.input[ElementAt(p, i)]) ELSE 0
Cur(p) == InputAt(p, p.position)
AtEnd(p) == p.position >= p.length

\* position++ ; column++  (n bytes)
Advance(p, n) == [p EXCEPT !.position = @ + n, !.column = @ + n]

IsSpace(c) == c = ChSP \/ c = ChTAB \/ c = ChCR \/ c = ChLF

RECURSIVE skip_whitespace(_)
skip_whitespace(p) ==
    IF p.position < p.length /\ IsSpace(Cur(p)) THEN
       skip_whitespace(IF Cur(p) = ChLF
                       THEN [p EXCEPT !.line = @ + 1, !.column = 0, !.position = @ + 1]
                       ELSE [p EXCEPT !.column = @ + 1, !.position = @ + 1])
    ELSE p

\* peek_char: the parser after skipping, and the answer
peek_char(p, expected) ==
    LET q == skip_whitespace(p)
    IN [p |-> q, ok |-> ~AtEnd(q) /\ Cur(q) = expected]

consume_char(p, expected) ==
    LET q == skip_whitespace(p)
    IN IF AtEnd(q) THEN [p |-> SetError(q, "Unexpected end of input"), ok |-> FALSE]
       ELSE IF Cur(q) # expected THEN [p |-> SetError(q, "Expected character"), ok |-> FALSE]
       ELSE [p |-> Advance(q, 1), ok |-> TRUE]

\* strncmp(input + position, lit, n) == 0 guarded by position + n <= length
MatchLit(p, lit) ==
    /\ p.position + Len(lit) <= p.length
    /\ \A j \in 1..Len(lit) : InputAt(p, p.position + j - 1) = lit[j]
\* ---- numbers ---------------------------------------------------------------
\* A double is modelled by the decimal it was read from: sign, significant
\* digits (no leading or trailing zero; empty for zero) and the power of ten
\* of the last digit.  Exact for tokens of at most 15 significant digits.
DBL_MAX_10_EXP == 308
DBL_MIN_10_EXP == -307
ExpCap == 100000

RECURSIVE DigitRun(_, _)
\* the digits of s from index i (1-based) up to the first non-digit
DigitRun(s, i) ==
    IF i <= Len(s) /\ isdigit(s[i]) THEN <<s[i] - Ch0>> \o DigitRun(s, i + 1) ELSE <<>>

RECURSIVE StripLeadingZeros(_)
StripLeadingZeros(d) ==
    IF d # <<>> /\ Head(d) = 0 THEN StripLeadingZeros(Tail(d)) ELSE d

RECURSIVE StripTrailingZeros(_)
StripTrailingZeros(d) ==
    IF d # <<>> /\ Last(d) = 0 THEN StripTrailingZeros(Front(d)) ELSE d

RECURSIVE DigitsToNat(_)
\* capped so that a long exponent cannot overflow the arithmetic
DigitsToNat(d) ==
    IF d = <<>> THEN 0
    ELSE LET hi == DigitsToNat(Front(d))
         IN IF hi >= ExpCap THEN ExpCap ELSE hi * 10 + Last(d)

RECURSIVE NatToDigits(_)
NatToDigits(n) == IF n < 10 THEN <<n>> ELSE NatToDigits(n \div 10) \o <<n % 10>>

\* the decimal order of magnitude of a non-zero number: v = d.ddd * 10^Order
Order(v) == Len(v.digits) - 1 + v.exp

\* strtod(3) in the C locale on a NUL-terminated buffer: the longest prefix
\* [-+]digits[.digits][(e|E)[-+]digits]; value, characters consumed, and
\* whether the conversion reports a range error (overflow or underflow)
strtod(buf) ==
    LET s == CStr(buf)
        hasSign == s # <<>> /\ s[1] \in {ChMINUS, ChPLUS}
        i0 == IF hasSign THEN 2 ELSE 1
        int == DigitRun(s, i0)
        i1 == i0 + Len(int)
        hasDot == i1 <= Len(s) /\ s[i1] = ChDOT
        frac == IF hasDot THEN DigitRun(s, i1 + 1) ELSE <<>>
        i2 == IF hasDot THEN i1 + 1 + Len(frac) ELSE i1
        hasE == i2 <= Len(s) /\ s[i2] \in {Che, ChUpE}
        eSign == hasE /\ i2 + 1 <= Len(s) /\ s[i2 + 1] \in {ChMINUS, ChPLUS}
        i3 == IF eSign THEN i2 + 2 ELSE i2 + 1
        edig == IF hasE THEN DigitRun(s, i3) ELSE <<>>
        eNeg == eSign /\ s[i2 + 1] = ChMINUS
        e == IF eNeg THEN 0 - DigitsToNat(edig) ELSE DigitsToNat(edig)
        end == IF edig # <<>> THEN i3 + Len(edig) - 1 ELSE i2 - 1
        lead == StripLeadingZeros(int \o frac)
        digits == StripTrailingZeros(lead)
        v == [neg |-> hasSign /\ s[1] = ChMINUS,
              digits |-> digits,
              exp |-> IF digits = <<>> THEN 0 ELSE e - Len(frac) + (Len(lead) - Len(digits))]
    IN IF int = <<>> /\ frac = <<>>
       THEN [value |-> NumZero, end |-> 0, erange |-> FALSE]
       ELSE [value |-> v, end |-> end,
             erange |-> digits # <<>> /\ (Order(v) > DBL_MAX_10_EXP \/ Order(v) < DBL_MIN_10_EXP)]

\* ---- printf conversions used by json_print_value -----------------------------
DigitChars(d) == [i \in 1..Len(d) |-> Ch0 + d[i]]
SignChars(v) == IF v.neg THEN <<ChMINUS>> ELSE <<>>

\* value == floor(value) && fabs(value) < 1e10
IsSmallIntegral(v) == v.digits = <<>> \/ (v.exp >= 0 /\ Len(v.digits) + v.exp <= 10)

\* "%.0f" of an integral value
FormatF0(v) ==
    SignChars(v) \o (IF v.digits = <<>> THEN <<Ch0>>
                     ELSE DigitChars(v.digits) \o Repeat(<<Ch0>>, v.exp))

\* rounding to six significant digits (half up on the decimal)
SigDigits == 6
RECURSIVE Increment(_)
Increment(d) ==
    IF d = <<>> THEN <<1>>
    ELSE IF Last(d) < 9 THEN Front(d) \o <<Last(d) + 1>>
    ELSE Increment(Front(d)) \o <<0>>
RoundSig(v) ==
    IF Len(v.digits) <= SigDigits THEN v
    ELSE LET kept == SubSeq(v.digits, 1, SigDigits)
             up == IF v.digits[SigDigits + 1] >= 5 THEN Increment(kept) ELSE kept
             dropped == Len(v.digits) - SigDigits
             stripped == StripTrailingZeros(up)
         IN [neg |-> v.neg, digits |-> stripped,
             exp |-> v.exp + dropped + (Len(up) - Len(stripped))]

\* "%g": scientific when the exponent is < -4 or >= 6, fixed otherwise, with
\* trailing zeros removed and at least two exponent digits
FormatG(v0) ==
    LET v == RoundSig(v0)
        X == Order(v)
        d == DigitChars(v.digits)
        n == Len(d)
    IN IF v.digits = <<>> THEN SignChars(v) \o <<Ch0>>
       ELSE IF X < -4 \/ X >= SigDigits THEN
            LET ax == IF X < 0 THEN 0 - X ELSE X
                ed == NatToDigits(ax)
            IN SignChars(v) \o <<d[1]>>
               \o (IF n > 1 THEN <<ChDOT>> \o Tail(d) ELSE <<>>)
               \o <<Che, IF X < 0 THEN ChMINUS ELSE ChPLUS>>
               \o (IF Len(ed) < 2 THEN <<Ch0>> ELSE <<>>) \o DigitChars(ed)
       ELSE IF X < 0 THEN
            SignChars(v) \o <<Ch0, ChDOT>> \o Repeat(<<Ch0>>, 0 - X - 1) \o d
       ELSE IF n <= X + 1 THEN
            SignChars(v) \o d \o Repeat(<<Ch0>>, X + 1 - n)
       ELSE SignChars(v) \o SubSeq(d, 1, X + 1) \o <<ChDOT>> \o SubSeq(d, X + 2, n)
\* ---- state -----------------------------------------------------------------
Threads == {1, 2}

VARIABLES
    P,        \* P[t]: the Parser struct of thread t's current json_parse call
    stack,    \* stack[t]: the call stack of thread t (frames, innermost last)
    ret,      \* ret[t]: the value returned by the call that returned last
    errno,    \* errno[t]: the thread's errno
    heap,     \* the blocks allocated so far (shared)
    viol,     \* memory-safety violations seen so far
    stderr,   \* the diagnostics printed by json_parse
    caller,   \* caller[t]: the program around the library calls (main)
    oom       \* oom[t]: how many allocations of thread t may still fail

vars == <<P, stack, ret, errno, heap, viol, stderr, caller, oom>>

Frame(fn, pc) == [fn |-> fn, pc |-> pc, v |-> NULL, k |-> NULL, buf |-> <<>>]

M == [heap |-> heap, viol |-> viol, spent |-> 0]
Top(t) == stack[t][Len(stack[t])]
Running(t, fn) == stack[t] # <<>> /\ Top(t).fn = fn
Rest(t) == Front(stack[t])

\* the outcomes an allocation can have for thread t
AllocOK(t) == IF oom[t] > 0 THEN {TRUE, FALSE} ELSE {TRUE}

\* one Parser for the whole process (a static instead of the local of
\* json_parse): a step of thread t then writes the Parser every thread reads
StepSharedParser(t, p, stk, r, m) ==
    /\ P' = [u \in Threads |-> p]
    /\ stack' = [stack EXCEPT ![t] = stk]
    /\ ret' = [ret EXCEPT ![t] = r]
    /\ heap' = m.heap
    /\ viol' = m.viol
    /\ m.spent <= oom[t]
    /\ oom' = [oom EXCEPT ![t] = @ - m.spent]

\* one step of thread t: new Parser, new stack, returned value, new memory
Step(t, p, stk, r, m) ==
    /\ P' = [P EXCEPT ![t] = p]
    /\ stack' = [stack EXCEPT ![t] = stk]
    /\ ret' = [ret EXCEPT ![t] = r]
    /\ heap' = m.heap
    /\ viol' = m.viol
    /\ m.spent <= oom[t]
    /\ oom' = [oom EXCEPT ![t] = @ - m.spent]

\* return r from the running function
Return(t, p, r, m) == Step(t, p, Rest(t), r, m)
\* stay in the running function, with its frame changed to f
Goto(t, p, f, m) == Step(t, p, Rest(t) \o <<f>>, ret[t], m)
\* call `callee`, leaving the running function's frame as f
Call(t, p, f, callee, m) == Step(t, p, Rest(t) \o <<f, Frame(callee, "entry")>>, ret[t], m)

\* ---- literals (json_parser.c:137-176) --------------------------------------
parse_null(t) ==
    /\ Running(t, "parse_null")
    /\ UNCHANGED <<errno, stderr, caller>>
    /\ LET p == P[t]
       IN IF MatchLit(p, LitNull)
          THEN \E ok \in AllocOK(t) :
                 LET c == json_value_create(M, t, JSON_NULL, ok, TRUE)
                 IN Return(t, Advance(p, 4), c.ptr, c.m)
          ELSE Return(t, SetError(p, "Invalid null value"), NULL, M)

parse_boolean(t) ==
    /\ Running(t, "parse_boolean")
    /\ UNCHANGED <<errno, stderr, caller>>
    /\ \E ok \in AllocOK(t) :
         LET p == P[t]
             c == json_value_create(M, t, JSON_BOOLEAN, ok, TRUE)
             value == c.ptr
         IN IF value = NULL THEN Return(t, p, NULL, c.m)
            ELSE IF MatchLit(p, LitTrue)
            THEN Return(t, Advance(p, 4), value,
                        [Touch(c.m, value) EXCEPT !.heap[value].boolean = TRUE])
            ELSE IF MatchLit(p, LitFalse)
            THEN Return(t, Advance(p, 5), value,
                        [Touch(c.m, value) EXCEPT !.heap[value].boolean = FALSE])
            ELSE Return(t, SetError(p, "Invalid boolean value"), NULL,
                        json_value_free(c.m, value))

\* ---- parse_value (json_parser.c:572-595): dispatch on the next byte ----------
Production(c) ==
    CASE c = Chn -> "parse_null"
      [] c = Cht \/ c = Chf -> "parse_boolean"
      [] c = ChQUOTE -> "parse_string"
      [] c = ChLBRACKET -> "parse_array"
      [] c = ChLBRACE -> "parse_object"
      [] c = ChMINUS \/ isdigit(c) -> "parse_number"
      [] OTHER -> ""

parse_value(t) ==
    /\ Running(t, "parse_value")
    /\ UNCHANGED <<errno, stderr, caller>>
    /\ LET p == skip_whitespace(P[t])
       IN IF AtEnd(p) THEN Return(t, SetError(p, "Unexpected end of input"), NULL, M)
          ELSE IF Production(Cur(p)) # ""
          THEN Goto(t, p, Frame(Production(Cur(p)), "entry"), M)   \* return parse_x(parser)
          ELSE Return(t, SetError(p, "Unexpected character"), NULL, M)
\* ---- parse_number (json_parser.c:178-287) ------------------------------------
\* The frame's buf is char buffer[MAX_NUMBER_SIZE]; buffer_pos is Len(buf).
\* st = [p, f, m]: parser, frame, memory.

\* buffer[buffer_pos++] = input[position++]; column++
TakeChar(st) ==
    [p |-> Advance(st.p, 1),
     f |-> [st.f EXCEPT !.buf = Append(@, Cur(st.p))],
     m |-> IF Len(st.f.buf) >= MAX_NUMBER_SIZE
           THEN Violate(st.m, "stack_buffer_overflow") ELSE st.m]

NextIsDigit(p) == ~AtEnd(p) /\ isdigit(Cur(p))

DigitMissingIgnored(p) == FALSE
\* if (position >= length || !isdigit(input[position]))  -- a digit must follow
DigitMissing(p) == AtEnd(p) \/ ~isdigit(Cur(p))

NumFail(t, st, kind) == Return(t, SetError(st.p, kind), NULL, st.m)
NumGoto(t, st, pc) == Goto(t, st.p, [st.f EXCEPT !.pc = pc], st.m)

\* one iteration of a digit loop, then on to pc `next`
DigitLoop(t, st, next) ==
    IF NextIsDigit(st.p)
    THEN IF Len(st.f.buf) >= MAX_NUMBER_SIZE - 1
         THEN NumFail(t, st, "Number too large")
         ELSE NumGoto(t, TakeChar(st), st.f.pc)
    ELSE NumGoto(t, st, next)

\* buffer[buffer_pos] = '\0'; json_value_create; strtod; the errno test
Convert(t, st, ok) ==
    LET m0 == IF Len(st.f.buf) >= MAX_NUMBER_SIZE
              THEN Violate(st.m, "stack_buffer_overflow") ELSE st.m
        buffer == Append(st.f.buf, 0)
        c == json_value_create(m0, t, JSON_NUMBER, ok, TRUE)
        value == c.ptr
        conv == strtod(buffer)
        e == IF conv.erange THEN ERANGE ELSE errno[t]
    IN IF value = NULL
       THEN Return(t, st.p, NULL, c.m) /\ UNCHANGED errno
       ELSE /\ errno' = [errno EXCEPT ![t] = e]
            /\ IF buffer[conv.end + 1] # 0 \/ e = ERANGE
               THEN Return(t, SetError(st.p, "Invalid number format"), NULL,
                           json_value_free(c.m, value))
               ELSE Return(t, st.p, value,
                           [Touch(c.m, value) EXCEPT !.heap[value].number = conv.value])

\* A store at buffer[MAX_NUMBER_SIZE] is a write past the array: undefined
\* behaviour.  What a build makes of it: the byte lands in a slot nothing
\* reads ("unused"); it lands in the low byte of the neighbouring local
\* buffer_pos, which the ++ of the same statement then increments
\* ("buffer_pos"); or the stack protector finds its canary changed and ends
\* the process ("abort").
PastTheArray == {"unused", "buffer_pos", "abort"}
Overflowed(st) == Len(st.f.buf) > MAX_NUMBER_SIZE
Clobbered(st) ==
    [st EXCEPT !.f.buf = SubSeq(@, 1, Last(st.f.buf) + 1)]

parse_number(t) ==
    /\ Running(t, "parse_number")
    /\ UNCHANGED stderr
    /\ LET st0 == [p |-> P[t], f |-> Top(t), m |-> M]
           pc == Top(t).pc
       IN CASE pc = "entry" ->
                 /\ UNCHANGED <<errno, caller>>
                 /\ LET st1 == IF Cur(st0.p) = ChMINUS THEN TakeChar(st0) ELSE st0
                    IN IF DigitMissing(st1.p) THEN NumFail(t, st1, "Invalid number")
                       ELSE IF Cur(st1.p) = Ch0
                       THEN LET st2 == TakeChar(st1)
                            IN IF NextIsDigit(st2.p)
                               THEN NumFail(t, st2, "Leading zeros not allowed")
                               ELSE NumGoto(t, st2, "frac")
                       ELSE NumGoto(t, st1, "int")
            [] pc = "int" -> UNCHANGED <<errno, caller>> /\ DigitLoop(t, st0, "frac")
            [] pc = "frac" ->
                 /\ UNCHANGED <<errno, caller>>
                 /\ IF ~AtEnd(st0.p) /\ Cur(st0.p) = ChDOT
                    THEN LET st1 == TakeChar(st0)
                         IN IF DigitMissing(st1.p)
                            THEN NumFail(t, st1, "Invalid decimal number")
                            ELSE NumGoto(t, st1, "fracloop")
                    ELSE NumGoto(t, st0, "exp")
            [] pc = "fracloop" -> UNCHANGED <<errno, caller>> /\ DigitLoop(t, st0, "exp")
            [] pc = "exp" ->
                 /\ UNCHANGED errno
                 /\ IF ~AtEnd(st0.p) /\ Cur(st0.p) \in {Che, ChUpE}
                    THEN LET st1 == TakeChar(st0)
                             st2 == IF ~AtEnd(st1.p) /\ Cur(st1.p) \in {ChPLUS, ChMINUS}
                                    THEN TakeChar(st1) ELSE st1
                             after(st) == IF DigitMissing(st.p)
                                          THEN NumFail(t, st, "Invalid exponent")
                                          ELSE NumGoto(t, st, "exploop")
                         IN IF ~Overflowed(st2) THEN after(st2) /\ UNCHANGED caller
                            ELSE \E outcome \in PastTheArray :
                                   CASE outcome = "unused" -> after(st2) /\ UNCHANGED caller
                                     [] outcome = "buffer_pos" ->
                                          after(Clobbered(st2)) /\ UNCHANGED caller
                                     [] OTHER ->
                                          /\ Step(t, st2.p, <<>>, NULL, st2.m)
                                          /\ caller' = [caller EXCEPT ![t].pc = "aborted"]
                    ELSE NumGoto(t, st0, "conv") /\ UNCHANGED caller
            [] pc = "exploop" -> UNCHANGED <<errno, caller>> /\ DigitLoop(t, st0, "conv")
            [] pc = "conv" -> UNCHANGED caller /\ \E ok \in AllocOK(t) : Convert(t, st0, ok)
\* ---- parse_string (json_parser.c:289-424) ------------------------------------
parse_hex_digit(c) ==
    IF c >= Ch0 /\ c <= Ch9 THEN c - Ch0
    ELSE IF c >= Cha /\ c <= Chf THEN c - Cha + 10
    ELSE IF c >= ChUpA /\ c <= ChUpF THEN c - ChUpA + 10
    ELSE -1

\* the bytes stored for a code point (json_parser.c:362-371)
Utf8(codepoint) ==
    IF codepoint < 128 THEN <<codepoint>>
    ELSE IF codepoint < 2048
    THEN <<192 + (codepoint \div 64), 128 + (codepoint % 64)>>
    ELSE <<224 + (codepoint \div 4096), 128 + ((codepoint \div 64) % 64), 128 + (codepoint % 64)>>

\* the byte stored for a short escape, -1 for an unknown one (json_parser.c:325-333)
ShortEscape(c) ==
    CASE c = ChQUOTE -> ChQUOTE
      [] c = ChBACKSLASH -> ChBACKSLASH
      [] c = ChSLASH -> ChSLASH
      [] c = Chb -> 8
      [] c = Chf -> 12
      [] c = Chn -> ChLF
      [] c = Chr -> ChCR
      [] c = Cht -> ChTAB
      [] OTHER -> -1

\* buffer[buffer_pos++] = b for each b of bytes; buffer_pos is Len(data)
RECURSIVE Store(_, _, _)
Store(m, buffer, bytes) ==
    IF bytes = <<>> THEN m
    ELSE LET m1 == IF RealLen(m.heap[buffer].data) >= m.heap[buffer].capacity
                   THEN Violate(m, "heap_buffer_overflow") ELSE m
         IN Store([m1 EXCEPT !.heap[buffer].data = Append(@, Head(bytes))], buffer, Tail(bytes))

\* the four hex digits after \u: st = [p, cp, err]
RECURSIVE HexDigits(_, _, _)
HexDigits(p, codepoint, i) ==
    IF i >= 4 THEN [p |-> p, cp |-> codepoint, err |-> ""]
    ELSE IF AtEnd(p) THEN [p |-> p, cp |-> codepoint, err |-> "Invalid unicode escape"]
    ELSE IF parse_hex_digit(Cur(p)) < 0
    THEN [p |-> p, cp |-> codepoint, err |-> "Invalid hex digit"]
    ELSE HexDigits(Advance(p, 1), codepoint * 16 + parse_hex_digit(Cur(p)), i + 1)

StrFail(t, p, buffer, kind) == Return(t, SetError(p, kind), NULL, free(M, buffer))

\* the code after the loop (json_parser.c:397-423)
CloseString(t, p, buffer, okNode, okShrink) ==
    IF AtEnd(p) THEN StrFail(t, p, buffer, "Unterminated string")
    ELSE
      LET p1 == Advance(p, 1)
          buffer_pos == RealLen(heap[buffer].data)
          m1 == Store(M, buffer, <<0>>)
          c == json_value_create(m1, t, JSON_STRING, okNode, TRUE)
          value == c.ptr
      IN IF value = NULL THEN Return(t, p1, NULL, free(c.m, buffer))
         ELSE IF okShrink
         THEN LET m2 == realloc(c.m, buffer, buffer_pos + 1, 0)
              IN Return(t, p1, value, [Touch(m2, value) EXCEPT !.heap[value].ptr = LastAlloc(m2)])
         ELSE Return(t, p1, value,
                     [Touch(AllocFails(c.m), value) EXCEPT !.heap[value].ptr = buffer])

StepBackOmitted(p) == p
\* position-- ; column--  after the four hex digits (json_parser.c:372-373)
StepBack(p) == Advance(p, -1)

\* one iteration of the decoding loop
DecodeStep(t, p, f) ==
    LET buffer == f.v
        buffer_pos == RealLen(heap[buffer].data)
        \* the iterations that store the bytes of a long run into the empty
        \* buffer are taken as one step: as many as the run has bytes left and
        \* the size test lets pass
        left == p.run.at + p.run.extra - p.position
        room == MAX_STRING_SIZE - 1 - buffer_pos
        k == IF p.run.at > 0 /\ left > 1 /\ buffer_pos = 0
             THEN (IF left < room THEN left ELSE room) ELSE 1
    IN IF buffer_pos >= MAX_STRING_SIZE - 1 THEN StrFail(t, p, buffer, "String too long")
       ELSE IF Cur(p) = ChBACKSLASH THEN
         LET p1 == Advance(p, 1)
         IN IF AtEnd(p1) THEN StrFail(t, p1, buffer, "Unterminated string")
            ELSE IF Cur(p1) = Chu THEN
              LET h == HexDigits(Advance(p1, 1), 0, 0)
              IN IF h.err # "" THEN StrFail(t, h.p, buffer, h.err)
                 \* the step back, then the common position++ ; column++
                 ELSE Goto(t, Advance(StepBack(h.p), 1), f, Store(M, buffer, Utf8(h.cp)))
            ELSE IF ShortEscape(Cur(p1)) >= 0
            THEN Goto(t, Advance(p1, 1), f, Store(M, buffer, <<ShortEscape(Cur(p1))>>))
            ELSE StrFail(t, p1, buffer, "Invalid escape sequence")
       ELSE IF Cur(p) < 32 THEN StrFail(t, p, buffer, "Invalid control character in string")
       ELSE Goto(t, Advance(p, k), f, Store(M, buffer, <<Packed(Cur(p), k)>>))

parse_string(t) ==
    /\ Running(t, "parse_string")
    /\ UNCHANGED <<errno, stderr, caller>>
    /\ LET p == P[t]
           f == Top(t)
       IN IF f.pc = "entry" THEN
            LET c == consume_char(p, ChQUOTE)
            IN IF ~c.ok THEN Return(t, c.p, NULL, M)
               ELSE \E ok \in AllocOK(t) :
                      IF ~ok THEN Return(t, c.p, NULL, AllocFails(M))
                      ELSE LET m1 == malloc(M, [Block("chars", t) EXCEPT !.capacity = MAX_STRING_SIZE])
                           IN Goto(t, c.p, [f EXCEPT !.pc = "loop", !.v = LastAlloc(m1)], m1)
          ELSE IF ~AtEnd(p) /\ Cur(p) # ChQUOTE THEN DecodeStep(t, p, f)
          ELSE \E okNode \in AllocOK(t), okShrink \in AllocOK(t) :
                 CloseString(t, p, f.v, okNode, okShrink)
\* ---- containers (json_parser.c:426-570) --------------------------------------
Garbage == -1

\* if (count >= capacity) { realloc to capacity * 2 }  -- ok: realloc succeeds
Grow(m, container, fill) ==
    LET c == Touch(m, container).heap[container]
        m1 == realloc(Touch(m, container), c.ptr, c.capacity * 2, fill)
    IN [m1 EXCEPT !.heap[container].ptr = LastAlloc(m1),
                  !.heap[container].capacity = c.capacity * 2]

IsFullPastEnd(m, container) == m.heap[container].count > m.heap[container].capacity
\* if (count >= capacity): the storage must grow before the next element
IsFull(m, container) == m.heap[container].count >= m.heap[container].capacity

AppendSlotKeepsCount(m, container, slot) ==
    LET c == m.heap[container]
    IN [Touch(Touch(m, container), c.ptr) EXCEPT !.heap[c.ptr].data[c.count + 1] = slot]

\* items[count++] = item   /   pairs[count] = {key, value}; count++
AppendSlot(m, container, slot) ==
    LET m1 == Touch(Touch(m, container), m.heap[container].ptr)
        c == m1.heap[container]
        m2 == IF c.count >= Len(m1.heap[c.ptr].data)
              THEN Violate(m1, "heap_buffer_overflow") ELSE m1
    IN [m2 EXCEPT !.heap[c.ptr].data =
                      IF c.count < Len(@) THEN [@ EXCEPT ![c.count + 1] = slot]
                      ELSE @ \o [i \in 1..(c.count - Len(@)) |-> Garbage] \o <<slot>>,
                  !.heap[container].count = c.count + 1]

DepthExceededAtLimit(p) == p.depth >= MAX_DEPTH
\* if (parser->depth > MAX_DEPTH), tested after parser->depth++
DepthExceeded(p) == p.depth > MAX_DEPTH

LeaveContainerCounted(p) == p
\* parser->depth-- before `return array` / `return object`
LeaveContainer(p) == [p EXCEPT !.depth = @ - 1]

\* depth++ ; the depth test ; json_value_create ; the empty container.
\* Leaves the frame at pc `next` and calls `first` for the first element.
OpenContainer(t, open, close, type, next, first) ==
    LET c0 == consume_char(P[t], open)
    IN IF ~c0.ok THEN Return(t, c0.p, NULL, M)
       ELSE
         LET p1 == [c0.p EXCEPT !.depth = @ + 1]
         IN IF DepthExceeded(p1)
            THEN Return(t, SetError(p1, "Maximum nesting depth exceeded"), NULL, M)
            ELSE \E okNode \in AllocOK(t), okData \in AllocOK(t) :
                   LET c == json_value_create(M, t, type, okNode, okData)
                       pk == peek_char(skip_whitespace(p1), close)
                   IN IF c.ptr = NULL THEN Return(t, p1, NULL, c.m)
                      ELSE IF pk.ok
                      THEN Return(t, LeaveContainer(consume_char(pk.p, close).p),
                                  c.ptr, c.m)
                      ELSE Call(t, pk.p, [Top(t) EXCEPT !.pc = next, !.v = c.ptr], first, c.m)

NextElementLeaks(t, p, m, container, close, next, first) ==
    LET pk == peek_char(skip_whitespace(p), close)
        cc == consume_char(pk.p, ChCOMMA)
    IN IF pk.ok
       THEN Return(t, LeaveContainer(consume_char(pk.p, close).p), container, m)
       ELSE IF ~cc.ok THEN Return(t, cc.p, NULL, m)
       ELSE Call(t, cc.p, [Top(t) EXCEPT !.pc = next, !.k = NULL], first, m)

\* after an element is stored: the closing bracket, or a comma and `first` again
NextElement(t, p, m, container, close, next, first) ==
    LET pk == peek_char(skip_whitespace(p), close)
        cc == consume_char(pk.p, ChCOMMA)
    IN IF pk.ok
       THEN Return(t, LeaveContainer(consume_char(pk.p, close).p), container, m)
       ELSE IF ~cc.ok THEN Return(t, cc.p, NULL, json_value_free(m, container))
       ELSE Call(t, cc.p, [Top(t) EXCEPT !.pc = next, !.k = NULL], first, m)

parse_array(t) ==
    /\ Running(t, "parse_array")
    /\ UNCHANGED <<errno, stderr, caller>>
    /\ IF Top(t).pc = "entry"
       THEN OpenContainer(t, ChLBRACKET, ChRBRACKET, JSON_ARRAY, "item", "parse_value")
       ELSE LET array == Top(t).v
                item == ret[t]
            IN IF item = NULL THEN Return(t, P[t], NULL, json_value_free(M, array))
               ELSE IF IsFull(Touch(M, array), array)
               THEN \E ok \in AllocOK(t) :
                      IF ~ok
                      THEN Return(t, P[t], NULL,
                                  json_value_free(
                                    json_value_free(AllocFails(Touch(M, array)), item), array))
                      ELSE NextElement(t, P[t], AppendSlot(Grow(M, array, Garbage), array, item),
                                       array, ChRBRACKET, "item", "parse_value")
               ELSE NextElement(t, P[t], AppendSlot(M, array, item),
                                array, ChRBRACKET, "item", "parse_value")

GarbagePair == [key |-> Garbage, value |-> Garbage]

DetachKeyKeepsPointer(m, key_value) == json_value_free(Touch(m, key_value), key_value)
\* key_value->data.string = NULL; json_value_free(key_value)  (json_parser.c:520-522)
DetachKey(m, key_value) ==
    json_value_free([Touch(m, key_value) EXCEPT !.heap[key_value].ptr = NULL], key_value)

\* the error of a key that is not a string: whatever parse_string wrote is
\* overwritten (json_parser.c:514-516)
KeyErrorKept(p) == p
KeyError(p) == SetError(p, "Expected string key")

parse_object(t) ==
    /\ Running(t, "parse_object")
    /\ UNCHANGED <<errno, stderr, caller>>
    /\ LET object == Top(t).v
       IN CASE Top(t).pc = "entry" ->
                 OpenContainer(t, ChLBRACE, ChRBRACE, JSON_OBJECT, "key", "parse_string")
            [] Top(t).pc = "key" ->
                 LET key_value == ret[t]
                 IN IF key_value = NULL \/ Touch(M, key_value).heap[key_value].type # JSON_STRING
                    THEN Return(t, KeyError(P[t]), NULL,
                                json_value_free(json_value_free(M, key_value), object))
                    ELSE
                      LET key == heap[key_value].ptr
                          m1 == DetachKey(M, key_value)
                          cc == consume_char(P[t], ChCOLON)
                      IN IF ~cc.ok
                         THEN Return(t, cc.p, NULL, json_value_free(free(m1, key), object))
                         ELSE Call(t, cc.p, [Top(t) EXCEPT !.pc = "value", !.k = key],
                                   "parse_value", m1)
            [] Top(t).pc = "value" ->
                 LET key == Top(t).k
                     value == ret[t]
                     pair == [key |-> key, value |-> value]
                 IN IF value = NULL
                    THEN Return(t, P[t], NULL, json_value_free(free(M, key), object))
                    ELSE IF IsFull(Touch(M, object), object)
                    THEN \E ok \in AllocOK(t) :
                           IF ~ok
                           THEN Return(t, P[t], NULL,
                                       json_value_free(
                                         json_value_free(
                                           free(AllocFails(Touch(M, object)), key), value),
                                         object))
                           ELSE NextElement(t, P[t],
                                            AppendSlot(Grow(M, object, GarbagePair), object, pair),
                                            object, ChRBRACE, "key", "parse_string")
                    ELSE NextElement(t, P[t], AppendSlot(M, object, pair),
                                     object, ChRBRACE, "key", "parse_string")
\* ---- json_parse (json_parser.c:597-626) --------------------------------------
TrailingDataIgnored(p) == FALSE
\* if (parser.position < parser.length)
TrailingData(p) == p.position < p.length

\* The frame's buf holds the argument `input`.
json_parse(t) ==
    /\ Running(t, "json_parse")
    /\ UNCHANGED <<errno, caller>>
    /\ IF Top(t).pc = "entry"
       THEN /\ Call(t, NewParser(Top(t).buf), [Top(t) EXCEPT !.pc = "after"], "parse_value", M)
            /\ UNCHANGED stderr
       ELSE LET value == ret[t]
                p == skip_whitespace(P[t])
                q == SetError(p, "Unexpected data after JSON")
            IN IF value # NULL
               THEN IF TrailingData(p)
                    THEN /\ Return(t, q, NULL, json_value_free(M, value))
                         /\ stderr' = Append(stderr, q.error)
                    ELSE /\ Return(t, p, value, M)
                         /\ UNCHANGED stderr
               ELSE /\ Return(t, P[t], NULL, M)
                    /\ stderr' = Append(stderr, P[t].error)

\* ---- the serializer (json_parser.c:628-698) ----------------------------------
json_print_indentOneSpace(indent) == Repeat(<<ChSP>>, indent)
json_print_indent(indent) == Repeat(<<ChSP, ChSP>>, indent)

\* fprintf(file, "\"%s\"", s): the bytes of the C string s between two quotes
PrintString(bytes) == <<ChQUOTE>> \o CStr(bytes) \o <<ChQUOTE>>

PrintNumber(number) == IF IsSmallIntegral(number) THEN FormatF0(number) ELSE FormatG(number)

\* what follows a key: the colon of "\"%s\":" and, in pretty mode, a space
KeySeparatorSpaced(pretty) == <<ChCOLON, ChSP>>
KeySeparator(pretty) == <<ChCOLON>> \o (IF pretty THEN <<ChSP>> ELSE <<>>)

\* The C recursion of json_print_value is run on an explicit call stack
\* `todo`: a frame is one activation, at "enter", at the loop test before
\* element i ("loop") or after the call for element i ("after").
PrintFrame(value, indent) == [value |-> value, indent |-> indent, i |-> 0, pc |-> "enter"]

json_print_value_step(h, pretty, s) ==
    LET f == s.todo[Len(s.todo)]
        callers == SubSeq(s.todo, 1, Len(s.todo) - 1)
        v == h[f.value]
        leaf(text) == [out |-> s.out \o text, todo |-> callers]
        goto(text, frame) == [out |-> s.out \o text, todo |-> Append(callers, frame)]
    IN IF f.value = NULL THEN leaf(LitNull)
       ELSE CASE v.type = JSON_NULL -> leaf(LitNull)
              [] v.type = JSON_BOOLEAN -> leaf(IF v.boolean THEN LitTrue ELSE LitFalse)
              [] v.type = JSON_NUMBER -> leaf(PrintNumber(v.number))
              [] v.type = JSON_STRING -> leaf(PrintString(h[v.ptr].data))
              [] OTHER ->
                   LET open == IF v.type = JSON_ARRAY THEN ChLBRACKET ELSE ChLBRACE
                       close == IF v.type = JSON_ARRAY THEN ChRBRACKET ELSE ChRBRACE
                       slot == h[v.ptr].data[f.i + 1]
                   IN CASE f.pc = "enter" ->
                             goto(<<open>> \o (IF pretty /\ v.count > 0 THEN <<ChLF>> ELSE <<>>),
                                  [f EXCEPT !.pc = "loop"])
                        [] f.pc = "loop" /\ f.i < v.count ->
                             [out |-> s.out
                                      \o (IF pretty THEN json_print_indent(f.indent + 1) ELSE <<>>)
                                      \o (IF v.type = JSON_OBJECT
                                          THEN PrintString(h[slot.key].data)
                                               \o KeySeparator(pretty)
                                          ELSE <<>>),
                              todo |-> callers \o <<[f EXCEPT !.pc = "after"],
                                                    PrintFrame(IF v.type = JSON_OBJECT
                                                               THEN slot.value ELSE slot,
                                                               f.indent + 1)>>]
                        [] f.pc = "loop" /\ f.i >= v.count ->
                             leaf((IF pretty /\ v.count > 0
                                   THEN json_print_indent(f.indent) ELSE <<>>)
                                  \o <<close>>)
                        [] OTHER ->
                             goto((IF f.i < v.count - 1 THEN <<ChCOMMA>> ELSE <<>>)
                                  \o (IF pretty THEN <<ChLF>> ELSE <<>>),
                                  [f EXCEPT !.pc = "loop", !.i = @ + 1])

RECURSIVE PrintRun(_, _, _, _)
\* up to n steps, stopping when the outermost activation has returned
PrintRun(h, pretty, s, n) ==
    IF s.todo = <<>> THEN s
    ELSE IF n <= 1 THEN json_print_value_step(h, pretty, s)
    ELSE LET half == PrintRun(h, pretty, s, n \div 2)
         IN IF half.todo = <<>> THEN half ELSE PrintRun(h, pretty, half, n - (n \div 2))

json_print_value(h, value, indent, pretty) ==
    PrintRun(h, pretty, [out |-> <<>>, todo |-> <<PrintFrame(value, indent)>>],
             4 * Len(h) + 4).out

\* ---- the accessors (json_parser.c:705-721) -----------------------------------
\* the bounds test of json_get_array_item (json_parser.c:707)
OutOfBoundsPastEnd(h, array, index) == index > h[array].count
OutOfBounds(h, array, index) == index >= h[array].count

json_get_array_item(h, array, index) ==
    IF array = NULL \/ h[array].type # JSON_ARRAY THEN NULL
    ELSE IF OutOfBounds(h, array, index) THEN NULL
    ELSE h[h[array].ptr].data[index + 1]
\* the indices of items[] the call reads
ItemsRead(h, array, index) ==
    IF array = NULL \/ h[array].type # JSON_ARRAY THEN {}
    ELSE IF OutOfBounds(h, array, index) THEN {}
    ELSE {index}

\* strcmp(a, b) == 0 on the C strings held in two buffers
StrEq(a, b) == CStr(a) = CStr(b)

RECURSIVE ScanPairsLast(_, _, _, _)
ScanPairsLast(h, object, key, i) ==
    IF i >= h[object].count THEN NULL
    ELSE LET later == ScanPairsLast(h, object, key, i + 1)
         IN IF later # NULL THEN later
            ELSE IF StrEq(h[h[h[object].ptr].data[i + 1].key].data, key)
            THEN h[h[object].ptr].data[i + 1].value
            ELSE NULL

\* the loop of json_get_object_value from index i on
RECURSIVE ScanPairs(_, _, _, _)
ScanPairs(h, object, key, i) ==
    IF i >= h[object].count THEN NULL
    ELSE IF StrEq(h[h[h[object].ptr].data[i + 1].key].data, key)
    THEN h[h[object].ptr].data[i + 1].value
    ELSE ScanPairs(h, object, key, i + 1)

\* the indices of pairs[] the loop reads from index i on
RECURSIVE ScanReads(_, _, _, _)
ScanReads(h, object, key, i) ==
    IF i >= h[object].count THEN {}
    ELSE IF StrEq(h[h[h[object].ptr].data[i + 1].key].data, key) THEN {i}
    ELSE {i} \cup ScanReads(h, object, key, i + 1)

\* key is the C string passed, or NoKey for a NULL pointer
NoKey == <<-1>>
json_get_object_value(h, object, key) ==
    IF object = NULL \/ h[object].type # JSON_OBJECT \/ key = NoKey THEN NULL
    ELSE ScanPairs(h, object, key, 0)
PairsRead(h, object, key) ==
    IF object = NULL \/ h[object].type # JSON_OBJECT \/ key = NoKey THEN {}
    ELSE ScanReads(h, object, key, 0)

\* ---- the extractor (json_parser.c:745-1103) --------------------------------
\* A member of an export object is known to the extractor by what
\* json_get_object_value returns for it and the type test that follows: its
\* JsonType, or NoMember when the lookup returns NULL.
NoMember == "NULL"
\* a message that is no JSON object (json_parser.c:1086)
NotAnObject == [attachments |-> <<>>, files |-> <<>>, object |-> FALSE]

\* ConversationContext after create_output_structure (json_parser.c:850-852);
\* manifest is what has been written to manifest_file after the header
NewContext ==
    [artifact_count |-> 0, external_file_count |-> 0, message_count |-> 0, manifest |-> <<>>]

Separator == [type |-> "separator", message_index |-> -1]
Entry(type, msg_index) == [type |-> type, message_index |-> msg_index]

\* extract_attachment (json_parser.c:928-971); opened: fopen of the artifact
\* file succeeded
extract_attachment(ctx, attachment, msg_index, opened) ==
    IF attachment.file_name # JSON_STRING THEN ctx
    ELSE IF attachment.extracted_content = JSON_STRING /\ opened
    THEN [ctx EXCEPT !.manifest =
                         (IF ctx.artifact_count > 0 THEN Append(@, Separator) ELSE @)
                         \o <<Entry("attachment", msg_index)>>,
                     !.artifact_count = @ + 1]
    ELSE ctx

\* note_external_file (json_parser.c:973-994)
note_external_file(ctx, file_ref, msg_index) ==
    IF file_ref.file_name = JSON_STRING
    THEN [ctx EXCEPT !.manifest =
                         (IF ctx.artifact_count > 0 \/ ctx.external_file_count > 0
                          THEN Append(@, Separator) ELSE @)
                         \o <<Entry("external_reference", msg_index)>>,
                     !.artifact_count =
                         IF ctx.artifact_count = 0 /\ ctx.external_file_count = 0
                         THEN 1 ELSE @,
                     !.external_file_count = @ + 1]
    ELSE ctx

\* write_manifest_footer (json_parser.c:1053-1061): the statistics object
write_manifest_footer(ctx) ==
    [ctx EXCEPT !.manifest =
         Append(@, [type |-> "statistics", message_index |-> -1,
                    total_messages |-> ctx.message_count,
                    total_artifacts |-> ctx.artifact_count,
                    external_references |-> ctx.external_file_count])]

\* ---- the calling program (main.c:137-169, query_engine.c:61-182) -------------
\* A caller parses its input, then may print the tree, look into it with the
\* accessors, or parse the compact output again, and releases what it holds.
MaxIndex == 2
QueryKeys == {<<Cha>>, <<Chb>>, <<>>, NoKey}

NewCaller(input) ==
    [pc |-> "parse", input |-> input, root |-> NULL, out |-> <<>>, mode |-> "none",
     query |-> <<>>, got |-> NULL, base |-> 0, budget |-> 0, family |-> "",
     later |-> <<>>, validate_only |-> FALSE,
     reads |-> {},
     messages |-> <<>>, msg_index |-> 0, ctx |-> NewContext]
IdleCaller == [NewCaller(<<>>) EXCEPT !.pc = "idle"]

Returned(t) == stack[t] = <<>> /\ caller[t].pc \in {"parse", "reparse", "again"}
Fresh(t) == caller[t].pc = "parse" /\ caller[t].mode = "none" /\ caller[t].query = <<>>
LiveValues(t) ==
    {a \in 1..Len(heap) : heap[a].kind = "value" /\ heap[a].frees = 0 /\ heap[a].by = t}

\* a print that consumes what it prints: the tree is released while written
PrintTreeReleasing(t) ==
    /\ Returned(t) /\ Fresh(t) /\ ret[t] # NULL /\ ~caller[t].validate_only
    /\ \E pretty \in BOOLEAN :
         caller' = [caller EXCEPT ![t].out = json_print_value(heap, ret[t], 0, pretty),
                                  ![t].mode = IF pretty THEN "pretty" ELSE "compact"]
    /\ heap' = json_value_free(M, ret[t]).heap
    /\ UNCHANGED <<P, stack, ret, errno, viol, stderr, oom>>

PrintTree(t) ==
    /\ Returned(t) /\ Fresh(t) /\ ret[t] # NULL /\ ~caller[t].validate_only
    /\ \E pretty \in BOOLEAN :
         caller' = [caller EXCEPT ![t].out = json_print_value(heap, ret[t], 0, pretty),
                                  ![t].mode = IF pretty THEN "pretty" ELSE "compact"]
    /\ UNCHANGED <<P, stack, ret, errno, heap, viol, stderr, oom>>

Reparse(t) ==
    /\ Returned(t) /\ caller[t].pc = "parse" /\ caller[t].mode = "compact"
    /\ caller' = [caller EXCEPT ![t].pc = "reparse", ![t].root = ret[t],
                             ![t].base = Len(heap)]
    /\ stack' = [stack EXCEPT ![t] = <<[Frame("json_parse", "entry") EXCEPT !.buf = caller[t].out]>>]
    /\ UNCHANGED <<P, ret, errno, heap, viol, stderr, oom>>

GetArrayItem(t) ==
    /\ Returned(t) /\ Fresh(t) /\ ret[t] # NULL /\ ~caller[t].validate_only
    /\ \E array \in LiveValues(t) \cup {NULL}, index \in 0..MaxIndex :
         caller' = [caller EXCEPT ![t].query = <<"item", array, index>>,
                                  ![t].got = json_get_array_item(heap, array, index),
                                  ![t].reads = ItemsRead(heap, array, index)]
    /\ UNCHANGED <<P, stack, ret, errno, heap, viol, stderr, oom>>

GetObjectValue(t) ==
    /\ Returned(t) /\ Fresh(t) /\ ret[t] # NULL /\ ~caller[t].validate_only
    /\ \E object \in LiveValues(t) \cup {NULL}, key \in QueryKeys :
         caller' = [caller EXCEPT ![t].query = <<"value", object, key>>,
                                  ![t].got = json_get_object_value(heap, object, key),
                                  ![t].reads = PairsRead(heap, object, key)]
    /\ UNCHANGED <<P, stack, ret, errno, heap, viol, stderr, oom>>

\* a program that handles one file after another (query_engine.c:454-535):
\* the tree of the file just handled is released and the next file is parsed
ParseAgain(t) ==
    /\ Returned(t) /\ caller[t].pc \in {"parse", "again"}
    /\ caller[t].mode = "none" /\ caller[t].query = <<>>
    /\ caller[t].later # <<>>
    /\ LET m == json_value_free(M, ret[t])
       IN heap' = m.heap /\ viol' = m.viol
    /\ caller' = [caller EXCEPT ![t].pc = "again", ![t].input = Head(caller[t].later),
                                ![t].later = Tail(caller[t].later), ![t].base = Len(heap)]
    /\ stack' = [stack EXCEPT ![t] = <<[Frame("json_parse", "entry")
                                          EXCEPT !.buf = Head(caller[t].later)]>>]
    /\ ret' = [ret EXCEPT ![t] = NULL]
    /\ UNCHANGED <<P, errno, stderr, oom>>

\* json_value_free(root) once per tree held, then the program ends
FreeTree(t) ==
    /\ Returned(t)
    /\ caller[t].root # NULL \/ ret[t] # NULL
    /\ LET m == json_value_free(json_value_free(M, caller[t].root), ret[t])
       IN heap' = m.heap /\ viol' = m.viol
    /\ caller' = [caller EXCEPT ![t] = [NewCaller(@.input) EXCEPT !.pc = "done",
                                                              !.budget = caller[t].budget,
                                                              !.family = caller[t].family]]
    /\ ret' = [ret EXCEPT ![t] = NULL]
    /\ UNCHANGED <<P, stack, errno, stderr, oom>>

\* ---- process_conversation (json_parser.c:1063-1103) --------------------------
\* caller[t].messages: the chat_messages not yet processed, the first being the
\* one process_message is working on, with the attachments and files it has
\* not yet reached; msg_index: the loop variable i
Extracting(t) == caller[t].pc = "extract" /\ caller[t].messages # <<>>
Message(t) == Head(caller[t].messages)

\* one iteration of the attachments loop of process_message (1024-1034)
ExtractAttachments(t) ==
    /\ Extracting(t) /\ Message(t).object /\ Message(t).attachments # <<>>
    /\ \E opened \in BOOLEAN :
         caller' = [caller EXCEPT
                      ![t].ctx = extract_attachment(@, Head(Message(t).attachments),
                                                    caller[t].msg_index, opened),
                      ![t].messages[1].attachments = Tail(@)]
    /\ UNCHANGED <<P, stack, ret, errno, heap, viol, stderr, oom>>

\* one iteration of the files loop of process_message (1038-1048)
NoteFiles(t) ==
    /\ Extracting(t) /\ Message(t).object
    /\ Message(t).attachments = <<>> /\ Message(t).files # <<>>
    /\ caller' = [caller EXCEPT
                    ![t].ctx = note_external_file(@, Head(Message(t).files),
                                                  caller[t].msg_index),
                    ![t].messages[1].files = Tail(@)]
    /\ UNCHANGED <<P, stack, ret, errno, heap, viol, stderr, oom>>

\* the end of one iteration of the messages loop (1085-1090)
process_message(t) ==
    /\ Extracting(t)
    /\ Message(t).object => Message(t).attachments = <<>> /\ Message(t).files = <<>>
    /\ caller' = [caller EXCEPT
                    ![t].ctx.message_count = IF Message(t).object THEN @ + 1 ELSE @,
                    ![t].msg_index = @ + 1,
                    ![t].messages = Tail(@)]
    /\ UNCHANGED <<P, stack, ret, errno, heap, viol, stderr, oom>>

\* after the loop: write_manifest_footer(&ctx) (1093)
process_conversation(t) ==
    /\ caller[t].pc = "extract" /\ caller[t].messages = <<>>
    /\ caller' = [caller EXCEPT ![t].ctx = write_manifest_footer(@),
                                ![t].pc = "extracted"]
    /\ UNCHANGED <<P, stack, ret, errno, heap, viol, stderr, oom>>

\* ---- specification -----------------------------------------------------------
\* thread 1 runs one program on an input of the named family, then on the
\* inputs of `later`, with a budget of allocation failures; thread 2 runs a
\* program on its own input, or stays idle when that is NoInput. A program
\* run with validate_only (main.c:147) only parses and frees
NoInput == <<-1>>
InitThreads(family, inputs, laters, others, validate_only, ooms) ==
    /\ \E input \in inputs, later \in laters, other \in others, o \in ooms :
         /\ caller = [t \in Threads |->
                        IF t = 1
                        THEN [NewCaller(input) EXCEPT !.budget = o, !.family = family,
                                                      !.later = later,
                                                      !.validate_only = validate_only]
                        ELSE IF other = NoInput THEN IdleCaller
                        ELSE [NewCaller(other) EXCEPT !.family = family,
                                                      !.validate_only = TRUE]]
         /\ oom = [t \in Threads |-> IF t = 1 THEN o ELSE 0]
         /\ stack = [t \in Threads |->
                       IF t = 1 THEN <<[Frame("json_parse", "entry") EXCEPT !.buf = input]>>
                       ELSE IF other = NoInput THEN <<>>
                       ELSE <<[Frame("json_parse", "entry") EXCEPT !.buf = other]>>]
    /\ P = [t \in Threads |-> NewParser(<<>>)]
    /\ ret = [t \in Threads |-> NULL]
    /\ errno = [t \in Threads |-> 0]
    /\ heap = <<>>
    /\ viol = {}
    /\ stderr = <<>>

InitWith(family, inputs, ooms) == InitThreads(family, inputs, {<<>>}, {NoInput}, FALSE, ooms)

\* thread 1 runs process_conversation on a conversation whose chat_messages
\* are one of `conversations`, its output files being open
InitExtract(family, conversations) ==
    /\ \E messages \in conversations :
         caller = [t \in Threads |->
                     IF t = 1
                     THEN [NewCaller(<<>>) EXCEPT !.pc = "extract", !.family = family,
                                                  !.messages = messages]
                     ELSE IdleCaller]
    /\ oom = [t \in Threads |-> 0]
    /\ stack = [t \in Threads |-> <<>>]
    /\ P = [t \in Threads |-> NewParser(<<>>)]
    /\ ret = [t \in Threads |-> NULL]
    /\ errno = [t \in Threads |-> 0]
    /\ heap = <<>>
    /\ viol = {}
    /\ stderr = <<>>

Next ==
    \E t \in Threads :
        \/ json_parse(t)
        \/ parse_value(t)
        \/ parse_null(t)
        \/ parse_boolean(t)
        \/ parse_number(t)
        \/ parse_string(t)
        \/ parse_array(t)
        \/ parse_object(t)
        \/ PrintTree(t)
        \/ Reparse(t)
        \/ GetArrayItem(t)
        \/ GetObjectValue(t)
        \/ ParseAgain(t)
        \/ FreeTree(t)
        \/ ExtractAttachments(t)
        \/ NoteFiles(t)
        \/ process_message(t)
        \/ process_conversation(t)

\* ---- inputs ------------------------------------------------------------------
Q(s) == <<ChQUOTE>> \o s \o <<ChQUOTE>>

\* [1,1,...] and {"a":1,"a":1,...} with n elements, n >= 1
ArrayOf(n) ==
    <<ChLBRACKET, Ch0 + 1>> \o Repeat(<<ChCOMMA, Ch0 + 1>>, n - 1) \o <<ChRBRACKET>>
ObjectOf(n) ==
    <<ChLBRACE>> \o Q(<<Cha>>) \o <<ChCOLON, Ch0 + 1>>
    \o Repeat(<<ChCOMMA>> \o Q(<<Cha>>) \o <<ChCOLON, Ch0 + 1>>, n - 1) \o <<ChRBRACE>>

BaseInputs ==
    { LitNull, LitTrue, LitFalse,
      <<ChMINUS, Ch0 + 1, ChDOT, Ch0 + 5, Che, ChPLUS, Ch0 + 2>>,
      Q(<<Cha>>),
      <<ChLBRACKET, Ch0 + 1, ChCOMMA, Ch0 + 2, ChRBRACKET>>,
      <<ChLBRACE>> \o Q(<<Cha>>) \o <<ChCOLON, Ch0 + 1, ChRBRACE>>,
      ArrayOf(INITIAL_CAPACITY + 1), ObjectOf(INITIAL_CAPACITY + 1),
      ArrayOf(INITIAL_CAPACITY + 1) \o <<Ch0>> }

\* every sequence of at most MaxToks tokens, written one after the other
MaxToks == 4
Tokens ==
    { <<ChLBRACKET>>, <<ChRBRACKET>>, <<ChLBRACE>>, <<ChRBRACE>>, <<ChCOMMA>>, <<ChCOLON>>,
      <<Ch0 + 1>>, Q(<<Cha>>), <<ChSP>> }
TokenSeqs == SeqsUpTo(Tokens, MaxToks)
TokenInputs == {Concat(ts) : ts \in TokenSeqs}

\* the allocations that may fail in one run
MaxAllocFailures == 1

\* a value between leading and trailing bytes
MaxPad == 2
Cores == { <<ChLBRACE, ChRBRACE>>, <<Ch0 + 1>>, LitTrue, Q(<<Cha>>),
           <<ChLBRACKET, Ch0 + 1, ChRBRACKET>> }
Blanks == {ChSP, ChTAB, ChCR, ChLF}
Junk == {Ch0, Chs}
PaddedInputs ==
    {pre \o core \o post : pre \in SeqsUpTo(Blanks, MaxPad), core \in Cores,
                           post \in SeqsUpTo(Blanks \cup Junk, MaxPad)}
PaddedValid ==
    {pre \o core \o post : pre \in SeqsUpTo(Blanks, MaxPad), core \in Cores,
                           post \in SeqsUpTo(Blanks, MaxPad)}

\* objects of at most MaxPairs pairs, keys a or b (repeats allowed), values 1 or 2
MaxPairs == 3
PairChoices == {<<Cha>>, <<Chb>>} \X {Ch0 + 1, Ch0 + 2}
PairText(pr) == Q(pr[1]) \o <<ChCOLON, pr[2]>>
RECURSIVE PairsText(_)
PairsText(ps) ==
    IF ps = <<>> THEN <<>>
    ELSE PairText(Head(ps)) \o (IF Len(ps) > 1 THEN <<ChCOMMA>> ELSE <<>>) \o PairsText(Tail(ps))
ObjText(ps) == <<ChLBRACE>> \o PairsText(ps) \o <<ChRBRACE>>
ObjectInputs == {ObjText(ps) : ps \in SeqsUpTo(PairChoices, MaxPairs)}

\* arrays and objects of at most MaxElems elements, well-formed ("ok") or with
\* a leading comma, a trailing comma, a blank in place of a comma, or no
\* closing bracket; spaced: a blank around every bracket and comma
MaxElems == 3
ArrayElems == { <<Ch0 + 1>>, <<Ch0 + 2>>, Q(<<Cha>>), <<ChLBRACKET, ChRBRACKET>> }
ObjectElems ==
    { Q(<<Cha>>) \o <<ChCOLON, Ch0 + 1>>, Q(<<Chb>>) \o <<ChCOLON>> \o Q(<<Cha>>),
      Q(<<Cha>>) \o <<ChSP, ChCOLON, ChSP, Ch0 + 2>>, Q(<<Chb>>) \o <<ChCOLON, ChLBRACE, ChRBRACE>> }
RECURSIVE Join(_, _)
Join(es, sep) ==
    IF es = <<>> THEN <<>>
    ELSE IF Len(es) = 1 THEN es[1]
    ELSE es[1] \o sep \o Join(Tail(es), sep)
ListText(open, close, es, shape, spaced) ==
    LET sp == IF spaced THEN <<ChSP>> ELSE <<>>
        comma == sp \o <<ChCOMMA>> \o sp
    IN CASE shape = "ok" -> <<open>> \o sp \o Join(es, comma) \o sp \o <<close>>
         [] shape = "leading" -> <<open>> \o comma \o Join(es, comma) \o sp \o <<close>>
         [] shape = "trailing" -> <<open>> \o sp \o Join(es, comma) \o comma \o <<close>>
         [] shape = "nocomma" -> <<open>> \o sp \o Join(es, <<ChSP>>) \o sp \o <<close>>
         [] shape = "open" -> <<open>> \o sp \o Join(es, comma) \o sp
ListsOf(shape, minElems) ==
    {ListText(ChLBRACKET, ChRBRACKET, es, shape, spaced) :
        es \in {e \in SeqsUpTo(ArrayElems, MaxElems) : Len(e) >= minElems}, spaced \in BOOLEAN}
    \cup
    {ListText(ChLBRACE, ChRBRACE, es, shape, spaced) :
        es \in {e \in SeqsUpTo(ObjectElems, MaxElems) : Len(e) >= minElems}, spaced \in BOOLEAN}
ValidLists == ListsOf("ok", 0)
InvalidLists ==
    ListsOf("leading", 0) \cup ListsOf("trailing", 1) \cup ListsOf("nocomma", 2)
    \cup ListsOf("open", 0)

\* the base family: each base input alone, or followed by a second file
\* a message with an attachment that has its content and a file reference
Attached == [file_name |-> JSON_STRING, extracted_content |-> JSON_STRING, file_type |-> JSON_STRING]
Referenced == [file_name |-> JSON_STRING]
BaseMessage == [attachments |-> <<Attached>>, files |-> <<Referenced>>, object |-> TRUE]

InitBase ==
    \/ InitThreads("base", BaseInputs, {<<>>, <<<<Ch0 + 1>>>>}, {NoInput}, FALSE,
                   0..MaxAllocFailures)
    \/ InitExtract("export", {<<BaseMessage>>})

Init ==
    \/ InitBase
    \/ InitWith("tokens", TokenInputs, 0..MaxAllocFailures)
    \/ InitWith("objects", ObjectInputs, {0})
    \/ InitWith("valid_lists", ValidLists, {0})
    \/ InitWith("invalid_lists", InvalidLists, {0})
Spec == Init /\ [][Next]_vars

\* documents with whitespace and trailing bytes around a value
InitPadded ==
    \/ InitBase
    \/ InitWith("padded", PaddedInputs, {0})
    \/ InitWith("padded_valid", PaddedValid, {0})
SpecPadded == InitPadded /\ [][Next]_vars
\* ---- what a caller can observe of a tree -------------------------------------
\* Content(h, chars): the string a char* denotes, the bytes before the first NUL
Content(h, chars) == IF chars = NULL THEN <<>> ELSE CStr(h[chars].data)

RECURSIVE Tree(_, _, _)
\* the tree rooted at value; numbers are kept when withNumbers, else erased
Tree(h, value, withNumbers) ==
    LET v == h[value]
        slots == h[v.ptr].data
    IN [type |-> v.type,
        boolean |-> v.type = JSON_BOOLEAN /\ v.boolean,
        number |-> IF v.type = JSON_NUMBER /\ withNumbers THEN v.number ELSE NumZero,
        string |-> IF v.type = JSON_STRING THEN Content(h, v.ptr) ELSE <<>>,
        keys |-> IF v.type = JSON_OBJECT
                 THEN [i \in 1..v.count |-> Content(h, slots[i].key)] ELSE <<>>,
        items |-> CASE v.type = JSON_ARRAY -> [i \in 1..v.count |-> Tree(h, slots[i], withNumbers)]
                    [] v.type = JSON_OBJECT ->
                         [i \in 1..v.count |-> Tree(h, slots[i].value, withNumbers)]
                    [] OTHER -> <<>>]

\* the call of json_parse made by thread t has returned
Succeeded(t) == Returned(t) /\ ret[t] # NULL
Failed(t) == Returned(t) /\ ret[t] = NULL
\* the diagnostic json_parse printed for its last failure
Surfaced == stderr[Len(stderr)].kind
\* no allocation of thread t has failed
NoAllocFailure(t) == oom[t] = caller[t].budget
\* number tokens: every string of at most MaxNumLen of these characters
MaxNumLen == 5
NumChars == {ChMINUS, ChPLUS, ChDOT, Che, ChUpE, Ch0, Ch0 + 1, Ch9}
NumberInputs == SeqsUpTo(NumChars, MaxNumLen) \ {<<>>}
NumberExamples ==
    { <<Ch0>>, <<ChMINUS, Ch0>>, <<ChMINUS, Ch0, ChDOT, Ch0 + 5, Che, Ch0 + 2>>,
      <<Ch0, Ch0 + 1>>, <<ChMINUS, Ch0, Ch0 + 1>>, <<ChMINUS>>, <<Ch0 + 1, ChDOT>>,
      <<Ch0 + 1, Che>>, <<Ch0 + 1, Che, ChPLUS>> }

InitNumbers ==
    \/ InitBase
    \/ InitWith("numbers", NumberInputs \cup NumberExamples, {0})
SpecNumbers == InitNumbers /\ [][Next]_vars

\* string literals as a value and as an object key
MaxStr == 4
StrChars == {Cha, ChQUOTE, ChBACKSLASH, Chn, 1, 31, ChSP}
AsValue(body) == Q(body)
AsKey(body) == <<ChLBRACE>> \o Q(body) \o <<ChCOLON, Ch0 + 1, ChRBRACE>>
StringInputs ==
    {AsValue(b) : b \in SeqsUpTo(StrChars, MaxStr)} \cup {AsKey(b) : b \in SeqsUpTo(StrChars, MaxStr)}

\* one \uXXXX escape between optional plain characters
HexChars == {Ch0, Ch0 + 7, Ch0 + 8, Chf, ChUpF, Chf + 1, ChQUOTE}
Around == {<<>>, <<Cha>>}
UnicodeBodies ==
    {pre \o <<ChBACKSLASH, Chu, h1, h2, h3, h4>> \o post :
        pre \in Around, post \in Around,
        h1 \in HexChars, h2 \in HexChars, h3 \in HexChars, h4 \in HexChars}
    \cup {<<ChBACKSLASH, Chu, Ch0, Ch0, Che, Ch9>>, <<ChBACKSLASH, Chu, Ch0, Ch0, ChUpE, Ch9>>}
UnicodeInputs == {AsValue(b) : b \in UnicodeBodies} \cup {AsKey(b) : b \in UnicodeBodies}

InitStrings ==
    \/ InitBase
    \/ InitWith("strings", StringInputs, {0})
    \/ InitWith("unicode", UnicodeInputs, {0})
SpecStrings == InitStrings /\ [][Next]_vars

\* containers nested to a depth around MAX_DEPTH: arrays, objects, the two
\* alternating, and an array whose innermost level holds two siblings
DepthSlack == 1
Depths == (MAX_DEPTH - DepthSlack)..(MAX_DEPTH + DepthSlack)
OpenObject == <<ChLBRACE>> \o Q(<<Cha>>) \o <<ChCOLON>>
Shapes == {"arrays", "objects", "array_first", "object_first"}
\* is the k-th container from outside an object
IsObject(shape, k) ==
    CASE shape = "arrays" -> FALSE
      [] shape = "objects" -> TRUE
      [] shape = "array_first" -> k % 2 = 0
      [] OTHER -> k % 2 = 1
\* the openers of d nested containers, and their closers
Opening(shape, d) ==
    LET unit == CASE shape = "arrays" -> <<ChLBRACKET, ChLBRACKET>>
                  [] shape = "objects" -> OpenObject \o OpenObject
                  [] shape = "array_first" -> <<ChLBRACKET>> \o OpenObject
                  [] OTHER -> OpenObject \o <<ChLBRACKET>>
        first == IF IsObject(shape, 1) THEN Len(OpenObject) ELSE 1
    IN SubSeq(Repeat(unit, (d \div 2) + 1), 1, (d \div 2) * Len(unit) + (d % 2) * first)
Closing(shape, d) ==
    [i \in 1..d |-> IF IsObject(shape, d - i + 1) THEN ChRBRACE ELSE ChRBRACKET]
Nested(shape, d, core) == Opening(shape, d) \o core \o Closing(shape, d)
DeepInputs ==
    UNION {
        {Nested(shape, d - 1, <<ChLBRACKET, ChRBRACKET>>) : shape \in Shapes}
        \cup {Nested(shape, d - 1, <<ChLBRACE, ChRBRACE>>) : shape \in Shapes}
        \cup {Nested(shape, d - 2, <<ChLBRACKET, ChLBRACKET, ChRBRACKET, ChCOMMA,
                                    ChLBRACE, ChRBRACE, ChRBRACKET>>) : shape \in Shapes}
        \cup {Opening(shape, d) : shape \in Shapes} : d \in Depths }

InitDeep ==
    \/ InitBase
    \/ InitWith("deep", DeepInputs, {0})
SpecDeep == InitDeep /\ [][Next]_vars

\* ==== claims ==================================================================
\* the blocks allocated by thread t during its current json_parse call
CallBlocks(t) == {a \in 1..Len(heap) : a > caller[t].base /\ heap[a].by = t}

\* C2: no leak on failure -- whenever json_parse has returned NULL (syntax
\* error, trailing data or allocation failure), every block allocated during
\* that call has been released, and no tree is returned.
C2_NoLeakOnFailure ==
    \A t \in Threads :
        Failed(t) => \A a \in CallBlocks(t) : heap[a].frees >= 1

\* a failed parse that had detached a key buffer and built an array with an
\* attached element inside an object, and has released them all
C2_Witness ==
    /\ Failed(1)
    /\ \E a \in CallBlocks(1) : heap[a].kind = "pairs"
    /\ \E a \in CallBlocks(1) : heap[a].kind = "chars"
    /\ \E a \in CallBlocks(1) : heap[a].kind = "items" /\ heap[a].data[1] # NULL
    /\ \A a \in CallBlocks(1) : heap[a].frees >= 1

\* C3: single ownership -- no block is ever freed twice, no freed block is
\* accessed, and once the caller has freed the root every block allocated by
\* the parse has been released exactly once.
C3_ExactlyOnce ==
    /\ viol \cap {"double_free", "use_after_free", "null_deref"} = {}
    /\ \A a \in 1..Len(heap) : heap[a].frees <= 1
    /\ \A t \in Threads :
         caller[t].pc = "done" => \A a \in 1..Len(heap) : heap[a].by = t => heap[a].frees = 1

\* the caller has freed a tree that held an object with a moved key buffer
C3_Witness ==
    /\ caller[1].pc = "done"
    /\ \E a \in 1..Len(heap) : heap[a].kind = "pairs" /\ heap[a].data[1].key # NULL
                               /\ heap[heap[a].data[1].key].frees = 1
    /\ \A a \in 1..Len(heap) : heap[a].frees = 1

WhitespaceBytes == {32, 9, 13, 10}
OnlyWhitespace(s) == \A i \in 1..Len(s) : s[i] \in WhitespaceBytes

\* C4 (the step): when parse_value has returned a complete value to json_parse,
\* json_parse returns that value iff the rest of the input is only whitespace;
\* otherwise it reports TrailingDataAfterValue, releases the tree, returns NULL.
C4_TrailingStep ==
    \A t \in Threads :
      (Running(t, "json_parse") /\ Top(t).pc = "after" /\ ret[t] # NULL /\ stack'[t] = <<>>) =>
        LET rest == SubSeq(P[t].input, P[t].position + 1, P[t].length)
        IN IF OnlyWhitespace(rest)
           THEN ret'[t] = ret[t] /\ stderr' = stderr /\ heap' = heap
           ELSE /\ ret'[t] = NULL
                /\ stderr' = Append(stderr, [kind |-> "Unexpected data after JSON",
                                             line |-> P'[t].line, column |-> P'[t].column])
                /\ \A a \in CallBlocks(t) : heap'[a].frees = 1

\* C4 (whitespace): a valid value with whitespace before and after it parses
C4_PaddingAccepted ==
    (caller[1].pc = "parse" /\ Returned(1) /\ caller[1].family = "padded_valid") =>
        /\ Succeeded(1)
        /\ \E i \in 1..Len(caller[1].input) : caller[1].input[i] \notin WhitespaceBytes

\* C4: whole-input consumption -- json_parse succeeds only if nothing but
\* whitespace follows the value; any other byte fails as TrailingDataAfterValue
\* with the tree released; whitespace around a valid value never causes failure.
C4_WholeInput == [][C4_TrailingStep]_vars /\ []C4_PaddingAccepted

\* " {}" followed by a junk byte has failed as trailing data, its tree released
C4_Witness ==
    /\ Failed(1)
    /\ Surfaced = "Unexpected data after JSON"
    /\ caller[1].input[1] \in WhitespaceBytes
    /\ \E a \in CallBlocks(1) : heap[a].kind = "pairs" /\ heap[a].frees = 1

SetMin(S) == CHOOSE x \in S : \A y \in S : x <= y

\* C6 (pairs kept): an object written with n key/value pairs parses (when no
\* allocation fails) to n pairs, in input order, repeated keys included
C6_PairsKept ==
    (caller[1].pc = "parse" /\ Returned(1) /\ caller[1].family = "objects") =>
        /\ Succeeded(1)
        /\ LET tr == Tree(heap, ret[1], TRUE)
               ps == [i \in 1..heap[ret[1]].count |->
                        <<tr.keys[i], Ch0 + tr.items[i].number.digits[1]>>]
           IN /\ tr.type = JSON_OBJECT
              /\ \A i \in 1..Len(tr.items) :
                   tr.items[i].type = JSON_NUMBER /\ Len(tr.items[i].number.digits) = 1
              /\ ObjText(ps) = caller[1].input

\* C6 (lookup): json_get_object_value(object, key) on an object and a key
\* returns the value of the pair with the smallest index whose key equals key
C6_FirstMatch ==
    \A t \in Threads :
      LET q == caller[t].query
      IN (q # <<>> /\ q[1] = "value" /\ q[2] # NULL /\ q[3] # NoKey) =>
           (heap[q[2]].type = JSON_OBJECT =>
              LET keys == Tree(heap, q[2], TRUE).keys
                  idx == {i \in 1..Len(keys) : keys[i] = q[3]}
              IN IF idx = {} THEN caller[t].got = NULL
                 ELSE caller[t].got = heap[heap[q[2]].ptr].data[SetMin(idx)].value)

\* C6: duplicate keys are retained in input order (count = pairs written) and
\* lookup returns the first pair whose key matches, never a later duplicate.
C6_DuplicatesFirstMatch == C6_PairsKept /\ C6_FirstMatch

\* {"a":1,"a":2} was parsed and the lookup of "a" gave the value 1
C6_Witness ==
    /\ caller[1].input = ObjText(<< <<(<<Cha>>), Ch0 + 1>>, <<(<<Cha>>), Ch0 + 2>> >>)
    /\ caller[1].query = <<"value", ret[1], <<Cha>>>>
    /\ caller[1].got # NULL
    /\ heap[caller[1].got].number.digits = <<1>>
    /\ heap[ret[1]].count = 2

\* the text the container grammar derives for a tree: brackets, the elements
\* (key:value pairs) in index order, one comma between two elements
RECURSIVE GrammarText(_)
GrammarText(tr) ==
    LET elem(i) == IF tr.type = JSON_OBJECT
                   THEN Q(tr.keys[i]) \o <<ChCOLON>> \o GrammarText(tr.items[i])
                   ELSE GrammarText(tr.items[i])
        elems == Join([i \in 1..Len(tr.items) |-> elem(i)], <<ChCOMMA>>)
    IN CASE tr.type = JSON_ARRAY -> <<ChLBRACKET>> \o elems \o <<ChRBRACKET>>
         [] tr.type = JSON_OBJECT -> <<ChLBRACE>> \o elems \o <<ChRBRACE>>
         [] tr.type = JSON_STRING -> Q(tr.string)
         [] tr.type = JSON_NUMBER ->
              DigitChars(tr.number.digits) \o Repeat(<<Ch0>>, tr.number.exp)
         [] tr.type = JSON_BOOLEAN -> IF tr.boolean THEN LitTrue ELSE LitFalse
         [] OTHER -> LitNull

NotBlank(c) == c # ChSP
WithoutBlanks(s) == SelectSeq(s, NotBlank)

\* C10 (only the grammar): a parse of a token sequence or list that succeeds
\* yields the tree whose grammar text is the input without its blanks -- the
\* n elements written, at indices 0..n-1, in input order
C10_OnlyGrammar ==
    (caller[1].pc = "parse" /\ Succeeded(1)
       /\ caller[1].family \in {"tokens", "valid_lists", "invalid_lists"}) =>
        GrammarText(Tree(heap, ret[1], TRUE)) = WithoutBlanks(caller[1].input)

\* C10 (all of the grammar): every well-formed list parses (when no allocation
\* fails); a leading comma, a trailing comma, a missing comma and a missing
\* closing bracket fail
C10_AllGrammar ==
    (caller[1].pc = "parse" /\ Returned(1) /\ NoAllocFailure(1)) =>
        /\ caller[1].family = "valid_lists" => Succeeded(1)
        /\ caller[1].family = "invalid_lists" => Failed(1)

\* C10: container grammar and order -- parse_array / parse_object accept
\* exactly: open bracket, then the close bracket at once (count 0) or elements
\* separated by single commas, then the close bracket, whitespace allowed
\* between tokens; the container holds the n elements written in input order.
C10_ContainerGrammar == C10_OnlyGrammar /\ C10_AllGrammar

\* [ 1 , "a" , 2 ] has been parsed into three elements in that order
C10_Witness ==
    /\ Succeeded(1)
    /\ caller[1].input = ListText(ChLBRACKET, ChRBRACKET,
                                  << <<Ch0 + 1>>, Q(<<Cha>>), <<Ch0 + 2>> >>, "ok", TRUE)
    /\ heap[ret[1]].count = 3
    /\ heap[heap[heap[ret[1]].ptr].data[2]].type = JSON_STRING

\* the number grammar -?(0|[1-9][0-9]*)(\.[0-9]+)?([eE][+-]?[0-9]+)?
AllDigits(s) == s # <<>> /\ \A i \in 1..Len(s) : s[i] \in 48..57
IntegerPart(s) == s = <<48>> \/ (AllDigits(s) /\ s[1] # 48)
FractionPart(s) == s = <<>> \/ (s[1] = 46 /\ AllDigits(Tail(s)))
ExponentPart(s) ==
    \/ s = <<>>
    \/ /\ s[1] \in {101, 69}
       /\ \/ AllDigits(Tail(s))
          \/ Len(s) >= 2 /\ s[2] \in {43, 45} /\ AllDigits(SubSeq(s, 3, Len(s)))
MatchesNumberGrammar(s) ==
    \E a \in 0..1, i \in 0..Len(s), j \in 0..Len(s) :
        /\ a <= i /\ i <= j
        /\ a = 1 => s[1] = 45
        /\ IntegerPart(SubSeq(s, a + 1, i))
        /\ FractionPart(SubSeq(s, i + 1, j))
        /\ ExponentPart(SubSeq(s, j + 1, Len(s)))

InvalidNumberFormat ==
    {"Invalid number", "Leading zeros not allowed", "Number too large",
     "Invalid decimal number", "Invalid exponent", "Invalid number format"}

\* C7: strict number grammar -- an input made only of - + . e E and digits
\* (short, and in floating-point range when well-formed) parses to a Number
\* iff the whole input matches the grammar; "01" and "-01" are rejected as
\* InvalidNumberFormat; "-0.5e2" is -50.
C7_NumberGrammar ==
    (caller[1].pc = "parse" /\ Returned(1) /\ caller[1].family = "numbers") =>
        LET x == caller[1].input
            wellFormed == MatchesNumberGrammar(x)
        IN /\ (wellFormed /\ strtod(Append(x, 0)).erange)
              \/ (Succeeded(1) <=> wellFormed)
           /\ Succeeded(1) => heap[ret[1]].type = JSON_NUMBER
           /\ x \in {<<48, 49>>, <<45, 48, 49>>} => Failed(1) /\ Surfaced \in InvalidNumberFormat
           /\ (x = <<45, 48, 46, 53, 101, 50>> /\ Succeeded(1)) =>
                heap[ret[1]].number = [neg |-> TRUE, digits |-> <<5>>, exp |-> 1]

\* "-0.5e2" has been accepted as a Number
C7_Witness ==
    /\ Succeeded(1)
    /\ caller[1].pc = "parse" /\ caller[1].family = "numbers"
    /\ caller[1].input = <<45, 48, 46, 53, 101, 50>>
    /\ heap[ret[1]].type = JSON_NUMBER

\* the body of the one string literal of an input built by AsValue or AsKey
BodyOf(input) ==
    IF input[1] = 123 THEN SubSeq(input, 3, Len(input) - 4)
    ELSE SubSeq(input, 2, Len(input) - 1)

\* C1: round trip -- for every accepted input, the compact serialization of
\* its tree parses again, to a tree with the same node types, string contents
\* of values and keys, booleans and nulls, counts and order (no allocation
\* failing).
C1_RoundTrip ==
    (caller[1].pc = "reparse" /\ Returned(1) /\ NoAllocFailure(1)) =>
        /\ ret[1] # NULL
        /\ Tree(heap, ret[1], FALSE) = Tree(heap, caller[1].root, FALSE)

RECURSIVE MeetsControl(_)
\* scanning a literal's body from its opening quote, an unescaped byte below
\* 0x20 comes before the closing quote and before any other error
MeetsControl(body) ==
    IF body = <<>> THEN FALSE
    ELSE IF body[1] = 34 THEN FALSE
    ELSE IF body[1] = 92
         THEN Len(body) >= 2 /\ body[2] \in {34, 92, 47, 98, 102, 110, 114, 116}
              /\ MeetsControl(SubSeq(body, 3, Len(body)))
    ELSE body[1] < 32 \/ MeetsControl(Tail(body))

\* C8: raw control bytes -- when the decoder of a string literal, value or
\* object key, meets an unescaped byte below 0x20, json_parse fails and the
\* error it reports is "Invalid control character in string".
C8_ControlCharacterSurfaces ==
    (caller[1].pc = "parse" /\ Returned(1) /\ caller[1].family = "strings"
       /\ MeetsControl(BodyOf(caller[1].input))) =>
        Failed(1) /\ Surfaced = "Invalid control character in string"

HexValue(ch) ==
    CASE ch \in 48..57 -> ch - 48
      [] ch \in 97..102 -> ch - 87
      [] ch \in 65..70 -> ch - 55
      [] OTHER -> -1
\* the UTF-8 encoding of a 16-bit code point in its 1-, 2- or 3-byte form
EncodeUtf8(c) ==
    IF c < 128 THEN <<c>>
    ELSE IF c < 2048 THEN <<192 + (c \div 64), 128 + (c % 64)>>
    ELSE <<224 + (c \div 4096), 128 + ((c \div 64) % 64), 128 + (c % 64)>>

\* C9: unicode escapes -- a literal pre \uXXXX post with four hex digits of
\* code point c parses to the string pre, UTF-8(c), post (exactly four
\* characters consumed); with a non-hex character among the four the parse
\* fails, as a value with "Invalid hex digit".
C9_UnicodeDecoded ==
    (caller[1].pc = "parse" /\ Returned(1) /\ caller[1].family = "unicode") =>
        LET input == caller[1].input
            body == BodyOf(input)
            k == IF body[1] = 92 THEN 0 ELSE 1
            hex == [i \in 1..4 |-> HexValue(body[k + 2 + i])]
            c == 4096 * hex[1] + 256 * hex[2] + 16 * hex[3] + hex[4]
            expected == SubSeq(body, 1, k) \o EncodeUtf8(c) \o SubSeq(body, k + 7, Len(body))
        IN IF \A i \in 1..4 : hex[i] >= 0
           THEN /\ Succeeded(1)
                /\ LET tree == Tree(heap, ret[1], FALSE)
                   IN IF input[1] = 123 THEN tree.keys = <<expected>>
                      ELSE tree.string = expected
           ELSE /\ Failed(1)
                /\ input[1] # 123 => Surfaced = "Invalid hex digit"

\* the nesting depth of input x after its first i characters, and the
\* 1-based indices where a container opens one level too deep
NestingAt(x, i) ==
    Cardinality({j \in 1..i : x[j] \in {91, 123}}) - Cardinality({j \in 1..i : x[j] \in {93, 125}})
OverDeep(x) == {i \in 1..Len(x) : x[i] \in {91, 123} /\ NestingAt(x, i) > 128}
ContainersMade(t) ==
    {a \in CallBlocks(t) : heap[a].kind = "value" /\ heap[a].type \in {JSON_ARRAY, JSON_OBJECT}}

\* C5: the depth bound is exact -- an input nesting arrays and objects at most
\* 128 deep is not rejected for its depth (and parses when well-formed); an
\* input that opens a 129th level fails with "Maximum nesting depth exceeded",
\* reported at the position just after that opening bracket, when only the
\* 128 enclosing containers have been created.
C5_DepthBound ==
    (caller[1].pc = "parse" /\ Returned(1) /\ Fresh(1) /\ caller[1].family = "deep") =>
        LET x == caller[1].input
            over == OverDeep(x)
        IN IF over = {}
           THEN /\ NestingAt(x, Len(x)) = 0 => Succeeded(1)
                /\ Failed(1) => Surfaced # "Maximum nesting depth exceeded"
           ELSE LET first == CHOOSE i \in over : \A j \in over : i <= j
                IN /\ Failed(1)
                   /\ stderr[Len(stderr)] =
                        [kind |-> "Maximum nesting depth exceeded", line |-> 1, column |-> first + 1]
                   /\ P[1].position = first
                   /\ Cardinality(ContainersMade(1)) = 128

\* an input nesting arrays and objects exactly 128 deep has been parsed
C5_Witness ==
    /\ Succeeded(1) /\ caller[1].pc = "parse" /\ caller[1].family = "deep"
    /\ Cardinality(ContainersMade(1)) = 128
    /\ \E a \in ContainersMade(1), b \in ContainersMade(1) :
          heap[a].type = JSON_ARRAY /\ heap[b].type = JSON_OBJECT
    /\ \A a \in ContainersMade(1) : heap[a].count <= 1
\* ---------------------------------------------------------------------------
\* Sequences of parse calls in one thread (query_engine.c handles one file
\* after another); thread 2 parses the last input of the sequence on its own,
\* as a process that has made no earlier call
\* ---------------------------------------------------------------------------
MaxEarlier == 2
One == <<Ch0 + 1>>
HugeExponent == <<Ch0 + 1, Che, Ch9, Ch9, Ch9>>
CallInputs == {One, HugeExponent, <<ChLBRACKET, Ch0 + 1, ChRBRACKET>>, <<ChLBRACKET>>}
InitCalls ==
    \/ InitBase
    \/ \E x \in CallInputs, earlier \in SeqsUpTo(CallInputs, MaxEarlier) \ {<<>>} :
         InitThreads("calls", {Head(earlier)}, {Tail(earlier) \o <<x>>}, {x}, TRUE, {0})
SpecCalls == InitCalls /\ [][Next]_vars

\* what a caller of json_parse observes: the tree, or the failure and its error
Outcome(t) ==
    IF ret[t] = NULL
    THEN [ok |-> FALSE, tree |-> <<>>, error |-> P[t].error]
    ELSE [ok |-> TRUE, tree |-> Tree(heap, ret[t], TRUE), error |-> NoError]

LastCallReturned(t) ==
    /\ caller[t].family = "calls"
    /\ caller[t].pc = "again" /\ caller[t].later = <<>> /\ Returned(t)
FreshCallReturned(t) ==
    /\ caller[t].family = "calls"
    /\ caller[t].pc = "parse" /\ Returned(t)

\* C11: a call on x made after any sequence of earlier calls in the same
\* thread gives the outcome (success or failure, tree, error) that a call on
\* x gives in a thread that has made no earlier call
C11_SameAsFresh ==
    (LastCallReturned(1) /\ FreshCallReturned(2) /\ caller[1].input = caller[2].input)
        => Outcome(1) = Outcome(2)
\* ---------------------------------------------------------------------------
\* Two threads, each in its own json_parse call on its own buffer
\* ---------------------------------------------------------------------------
PairValid ==
    { One,
      <<ChLBRACKET, Ch0 + 1, ChCOMMA, Ch0 + 2, ChRBRACKET>>,
      <<ChLBRACE>> \o Q(<<Cha>>) \o <<ChCOLON, Ch0 + 1, ChRBRACE>>,
      <<ChLBRACKET, ChSP>> \o LitTrue \o <<ChSP, ChRBRACKET>> }
PairInvalid == { HugeExponent, <<ChLBRACKET, Ch0 + 1>> }
PairInputs == PairValid \cup PairInvalid
InitPair ==
    \/ InitBase
    \/ InitThreads("pair", PairInputs, {<<>>}, PairInputs, TRUE, {0})
SpecPair == InitPair /\ [][Next]_vars

\* the call of thread t gives what the input alone determines: it succeeds
\* exactly on the well-formed inputs, with the tree the text describes
PairReturned(t) == caller[t].family = "pair" /\ caller[t].pc = "parse" /\ Returned(t)
C12_AsAlone ==
    \A t \in Threads :
        PairReturned(t) =>
            /\ Succeeded(t) <=> caller[t].input \in PairValid
            /\ Succeeded(t) =>
                 GrammarText(Tree(heap, ret[t], TRUE)) = WithoutBlanks(caller[t].input)

\* two calls on the same input end alike, whatever the interleaving
C12_Alike ==
    (PairReturned(1) /\ PairReturned(2) /\ caller[1].input = caller[2].input)
        => Outcome(1) = Outcome(2)

\* what belongs to the call of thread t: its Parser (cursor, line, column,
\* depth, error), its call stack, its returned value, its errno, its caller
Own(t) == <<P[t], stack[t], ret[t], errno[t], caller[t]>>

\* a step that changes what belongs to one thread's call leaves what belongs
\* to the other thread's call, and the tree that call returned, as they are
C12_NothingShared ==
    \A t, u \in Threads :
        (caller[t].family = "pair" /\ t # u /\ Own(t)' # Own(t)) =>
            /\ Own(u)' = Own(u)
            /\ (caller[u].pc = "parse" /\ Succeeded(u)) =>
                   Tree(heap', ret[u], TRUE) = Tree(heap, ret[u], TRUE)

\* C12: two json_parse calls running concurrently on separate buffers give,
\* under every interleaving of their steps, the results they give alone; no
\* step of one call changes the cursor, line, column, depth or error of the
\* other
C12_Isolated == [](C12_AsAlone /\ C12_Alike) /\ [][C12_NothingShared]_vars
\* both calls have returned after steps of the two were interleaved
C12_Witness ==
    /\ caller[1].input # caller[2].input
    /\ PairReturned(1) /\ PairReturned(2)
    /\ Succeeded(1) /\ Failed(2)
    /\ \E i, j, k \in 1..Len(heap) :
         i < j /\ j < k /\ heap[i].by = 1 /\ heap[j].by = 2 /\ heap[k].by = 1
\* ---------------------------------------------------------------------------
\* The accessors
\* ---------------------------------------------------------------------------
\* the last accessor call of thread t: its kind and its two arguments
Asked(t, kind) == caller[t].query # <<>> /\ caller[t].query[1] = kind
IsA(a, type) == a # NULL /\ heap[a].type = type

\* json_get_array_item(a, i): the element at index i of an array of more than
\* i elements, absent otherwise
C13_ArrayItem ==
    \A t \in Threads :
        Asked(t, "item") =>
            LET a == caller[t].query[2]
                i == caller[t].query[3]
            IN /\ (IsA(a, JSON_ARRAY) /\ i < heap[a].count) =>
                     /\ caller[t].got = heap[heap[a].ptr].data[i + 1]
                     /\ caller[t].got \in LiveValues(t)
                     /\ Tree(heap, caller[t].got, TRUE) = Tree(heap, a, TRUE).items[i + 1]
               /\ ~(IsA(a, JSON_ARRAY) /\ i < heap[a].count) => caller[t].got = NULL
               /\ \A r \in caller[t].reads : IsA(a, JSON_ARRAY) /\ r < heap[a].count

\* json_get_object_value(o, k): absent for a NULL o, a non-object, a NULL k
\* and a key no pair has; the value of a pair with that key otherwise
C13_ObjectValue ==
    \A t \in Threads :
        Asked(t, "value") =>
            LET o == caller[t].query[2]
                k == caller[t].query[3]
                has == /\ IsA(o, JSON_OBJECT) /\ k # NoKey
                       /\ \E i \in 1..heap[o].count : Tree(heap, o, TRUE).keys[i] = k
            IN /\ ~has => caller[t].got = NULL
               /\ has => \E i \in 1..heap[o].count :
                             /\ Tree(heap, o, TRUE).keys[i] = k
                             /\ caller[t].got = heap[heap[o].ptr].data[i].value
               /\ \A r \in caller[t].reads : IsA(o, JSON_OBJECT) /\ r < heap[o].count

\* C13: the accessors return the element or the value asked for when there is
\* one and NULL in every other case, and read no item or pair at an index
\* that is not below count
C13_AccessorsTotal == C13_ArrayItem /\ C13_ObjectValue
\* the index equal to count was asked of a non-empty array
C13_Witness ==
    /\ Asked(1, "item") /\ IsA(caller[1].query[2], JSON_ARRAY)
    /\ heap[caller[1].query[2]].count > 0
    /\ caller[1].query[3] = heap[caller[1].query[2]].count
    /\ caller[1].got = NULL
\* ---------------------------------------------------------------------------
\* Read-only operations
\* ---------------------------------------------------------------------------
\* the step is a call of json_print_value, json_get_array_item or
\* json_get_object_value made by thread t on the tree it holds
ReadOnlyCall(t) ==
    /\ Returned(t) /\ caller'[t].pc = caller[t].pc /\ stack'[t] = stack[t]
    /\ \/ caller'[t].mode # caller[t].mode
       \/ caller'[t].query # caller[t].query

\* C14: a call of json_print_value (pretty or compact), json_get_array_item
\* or json_get_object_value leaves every block as it was -- type, value,
\* string content, keys, count, capacity, child order -- and neither frees
\* nor allocates: the tree after the call is the tree before it
C14_ReadOnly ==
    [][\A t \in Threads :
          ReadOnlyCall(t) =>
              /\ heap' = heap
              /\ viol' = viol
              /\ Tree(heap', ret[t], TRUE) = Tree(heap, ret[t], TRUE)
              /\ ret'[t] = ret[t]]_vars
\* an object of two or more pairs was printed and is still whole
C14_Witness ==
    /\ caller[1].pc = "parse" /\ Succeeded(1)
    /\ heap[ret[1]].type = JSON_OBJECT /\ heap[ret[1]].count >= 2
    /\ caller[1].mode = "pretty"
    /\ heap[ret[1]].frees = 0 /\ heap[heap[ret[1]].ptr].frees = 0
    /\ \A i \in 1..heap[ret[1]].count :
         LET pair == heap[heap[ret[1]].ptr].data[i]
         IN heap[pair.key].frees = 0 /\ heap[pair.value].frees = 0
\* ---------------------------------------------------------------------------
\* Output shape: nested containers, empty containers, every scalar type
\* ---------------------------------------------------------------------------
ArrayText(es) == <<ChLBRACKET>> \o Join(es, <<ChCOMMA>>) \o <<ChRBRACKET>>
MemberText(key, text) == Q(key) \o <<ChCOLON>> \o text
ObjectText(ms) == <<ChLBRACE>> \o Join(ms, <<ChCOMMA>>) \o <<ChRBRACE>>
Digit(n) == <<Ch0 + n>>
PrintInputs ==
    { ArrayText(<<Digit(1), Digit(2), Digit(3)>>),
      ArrayText(<<>>), ObjectText(<<>>),
      ArrayText(<<ArrayText(<<>>), ObjectText(<<>>)>>),
      ArrayText(<<ArrayText(<<ArrayText(<<Digit(1)>>)>>), Q(<<Cha, ChSP, Chb>>)>>),
      ObjectText(<<MemberText(<<Cha>>, ArrayText(<<Digit(1),
                                  ObjectText(<<MemberText(<<Chb>>, ArrayText(<<>>))>>)>>)),
                   MemberText(<<Chb, ChSP>>, ObjectText(<<>>))>>),
      ObjectText(<<MemberText(<<Cha>>, ObjectText(<<MemberText(<<Chb>>,
                       ObjectText(<<MemberText(<<>>, LitNull)>>))>>)),
                   MemberText(<<Cha>>, LitTrue),
                   MemberText(<<Chb>>, <<ChMINUS, Ch0, ChDOT, Ch0 + 5>>)>>),
      <<ChSP, ChLBRACKET, ChLF>> \o LitFalse \o <<ChSP, ChCOMMA, ChTAB>>
          \o ArrayText(<<LitNull, Q(<<ChSP>>)>>) \o <<ChRBRACKET, ChLF>> }
InitPrint ==
    \/ InitBase
    \/ InitWith("print", PrintInputs, {0})
SpecPrint == InitPrint /\ [][Next]_vars

\* the tree thread t holds was written in the given mode
Printed(t, mode) ==
    /\ caller[t].family \in {"print", "base"} /\ caller[t].pc = "parse"
    /\ Succeeded(t) /\ caller[t].mode = mode
IsContainer(tr) == tr.type \in {JSON_ARRAY, JSON_OBJECT}
OpenOf(tr) == IF tr.type = JSON_ARRAY THEN <<ChLBRACKET>> ELSE <<ChLBRACE>>
CloseOf(tr) == IF tr.type = JSON_ARRAY THEN <<ChRBRACKET>> ELSE <<ChRBRACE>>
ScalarText(tr) ==
    CASE tr.type = JSON_STRING -> Q(tr.string)
      [] tr.type = JSON_NUMBER -> PrintNumber(tr.number)
      [] tr.type = JSON_BOOLEAN -> IF tr.boolean THEN LitTrue ELSE LitFalse
      [] OTHER -> LitNull
Spaces(n) == [i \in 1..n |-> ChSP]

\* the lines of the pretty layout of tr at nesting level d: `before` is what
\* the first line holds before the value (the indentation, and the key of a
\* pair), `after` what follows the value on its last line (a comma or nothing)
RECURSIVE PrettyLines(_, _, _, _)
PrettyLines(tr, d, before, after) ==
    IF ~IsContainer(tr) THEN << before \o ScalarText(tr) \o after >>
    ELSE IF tr.items = <<>> THEN << before \o OpenOf(tr) \o CloseOf(tr) \o after >>
    ELSE LET n == Len(tr.items)
             key(i) == IF tr.type = JSON_OBJECT
                       THEN Q(tr.keys[i]) \o <<ChCOLON, ChSP>> ELSE <<>>
             child(i) == PrettyLines(tr.items[i], d + 1, Spaces(2 * (d + 1)) \o key(i),
                                     IF i < n THEN <<ChCOMMA>> ELSE <<>>)
         IN << before \o OpenOf(tr) >>
            \o Concat([i \in 1..n |-> child(i)])
            \o << Spaces(2 * d) \o CloseOf(tr) \o after >>
PrettyLayout(tr) == Join(PrettyLines(tr, 0, <<>>, <<>>), <<ChLF>>)

\* C15: the pretty output started at indent 0 is the layout in which a
\* non-empty container is its opening bracket, a line break, one line per
\* element (or "key": value pair) at 2*d spaces with a comma after every
\* element but the last, and the closing bracket on its own line at 2*(d-1)
\* spaces; an empty container is [] or {}
C15_PrettyShape ==
    Printed(1, "pretty") => caller[1].out = PrettyLayout(Tree(heap, ret[1], TRUE))
\* an object holding an array that holds an object was written in pretty mode
C15_Witness ==
    /\ Printed(1, "pretty") /\ caller[1].family = "print"
    /\ LET tr == Tree(heap, ret[1], TRUE)
       IN /\ tr.type = JSON_OBJECT /\ Len(tr.items) = 2
          /\ tr.items[1].type = JSON_ARRAY /\ Len(tr.items[1].items) = 2
          /\ tr.items[1].items[2].type = JSON_OBJECT
          /\ tr.items[2].items = <<>>

\* the compact text of a tree: the elements of a container between its
\* brackets with one comma between two of them, a key and its value with one
\* colon between them, and nothing else
RECURSIVE CompactLayout(_)
CompactLayout(tr) ==
    IF ~IsContainer(tr) THEN ScalarText(tr)
    ELSE LET member(i) == IF tr.type = JSON_OBJECT
                          THEN Q(tr.keys[i]) \o <<ChCOLON>> \o CompactLayout(tr.items[i])
                          ELSE CompactLayout(tr.items[i])
         IN OpenOf(tr) \o Join([i \in 1..Len(tr.items) |-> member(i)], <<ChCOMMA>>)
            \o CloseOf(tr)

IsWhitespaceByte(c) == c \in {ChSP, ChTAB, ChLF, ChCR}
RECURSIVE Sum(_)
Sum(ns) == IF ns = <<>> THEN 0 ELSE Head(ns) + Sum(Tail(ns))
\* the number of whitespace bytes held by the strings and keys of a tree
RECURSIVE WhitespaceInStrings(_)
WhitespaceInStrings(tr) ==
    Len(SelectSeq(tr.string, IsWhitespaceByte))
    + Sum([i \in 1..Len(tr.keys) |-> Len(SelectSeq(tr.keys[i], IsWhitespaceByte))])
    + Sum([i \in 1..Len(tr.items) |-> WhitespaceInStrings(tr.items[i])])

\* C16: the compact output holds no space, tab or newline between tokens at
\* any level -- one comma between elements, one colon between key and value
\* -- so its only whitespace bytes are those of string contents, and the tree
\* of [1,2,3] is written as [1,2,3]
C16_CompactShape ==
    Printed(1, "compact") =>
        LET tr == Tree(heap, ret[1], TRUE)
        IN /\ caller[1].out = CompactLayout(tr)
           /\ Len(SelectSeq(caller[1].out, IsWhitespaceByte)) = WhitespaceInStrings(tr)
           /\ caller[1].input = ArrayText(<<Digit(1), Digit(2), Digit(3)>>) =>
                  caller[1].out = caller[1].input
\* a nested object with a key that holds a space was written in compact mode
C16_Witness ==
    /\ Printed(1, "compact") /\ caller[1].family = "print"
    /\ LET tr == Tree(heap, ret[1], TRUE)
       IN /\ tr.type = JSON_OBJECT /\ Len(tr.items) = 2
          /\ tr.keys[2] = <<Chb, ChSP>>
          /\ tr.items[1].type = JSON_ARRAY /\ Len(tr.items[1].items) = 2
    /\ Len(SelectSeq(caller[1].out, IsWhitespaceByte)) = 1
\* ---------------------------------------------------------------------------
\* The depth counter
\* ---------------------------------------------------------------------------
\* the calls of parse_array and parse_object of thread t that have counted
\* themselves in parser->depth and have not returned
OpenContainers(t) ==
    {i \in 1..Len(stack[t]) :
        stack[t][i].fn \in {"parse_array", "parse_object"} /\ stack[t][i].pc # "entry"}

\* C17: every call of parse_array or parse_object leaves parser->depth, when
\* it returns a container or a failure, at the value it had when the call was
\* entered: the counter is at all times the number of container calls that
\* are between their increment and their return
C17_DepthBalanced ==
    \A t \in Threads : P[t].depth = Cardinality(OpenContainers(t))
\* ---------------------------------------------------------------------------
\* Strings at the size bound: a run of plain bytes that fills the buffer to
\* within a few bytes of MAX_STRING_SIZE, then at most MaxTail more items
\* ---------------------------------------------------------------------------
SizeSlack == 4
MaxTail == 2
\* an item of a string literal and the number of bytes it decodes to
TailItems ==
    { [text |-> <<Chb>>, size |-> 1],
      [text |-> <<ChBACKSLASH, Chn>>, size |-> 1],
      [text |-> <<ChBACKSLASH, Chu, Ch0, Ch0, Ch0 + 4, Ch0 + 1>>, size |-> 1],
      [text |-> <<ChBACKSLASH, Chu, Ch0, Ch0, Che, Ch9>>, size |-> 2],
      [text |-> <<ChBACKSLASH, Chu, Ch0 + 2, Ch0, Cha, Ch0 + 3>>, size |-> 3] }
Tails == SeqsUpTo(TailItems, MaxTail)
RunLengths == (MAX_STRING_SIZE - 1 - SizeSlack)..MAX_STRING_SIZE
LongString(n, tail) ==
    <<ChQUOTE, Packed(Cha, n)>> \o Concat([i \in 1..Len(tail) |-> tail[i].text]) \o <<ChQUOTE>>
LongInputs == {LongString(n, tail) : n \in RunLengths, tail \in Tails}
InitLong ==
    \/ InitBase
    \/ InitThreads("long", LongInputs, {<<>>}, {NoInput}, TRUE, {0})
SpecLong == InitLong /\ [][Next]_vars

\* the number of bytes the literal decodes to: the run, then each item
DecodedSize(input) ==
    LET items == SubSeq(input, 3, Len(input) - 1)
        \* the bytes an escape starting at i is longer than what it decodes to
        shrink(i) == IF items[i] # ChBACKSLASH THEN 0
                     ELSE IF items[i + 1] # Chu THEN 1
                     ELSE 6 - Len(Utf8(4096 * parse_hex_digit(items[i + 2])
                                       + 256 * parse_hex_digit(items[i + 3])
                                       + 16 * parse_hex_digit(items[i + 4])
                                       + parse_hex_digit(items[i + 5])))
    IN TimesOf(input[2]) + Len(items) - Sum([i \in 1..Len(items) |-> shrink(i)])

\* C18: the decoder never stores more than MAX_STRING_SIZE bytes (content and
\* terminator) in its buffer, whatever mix of plain bytes, short escapes and
\* \uXXXX escapes the literal holds, and a literal whose decoded content
\* does not fit fails with "String too long"
C18_SizeBound ==
    /\ "heap_buffer_overflow" \notin viol
    /\ \A a \in 1..Len(heap) :
         heap[a].kind = "chars" => RealLen(heap[a].data) <= MAX_STRING_SIZE
    /\ (caller[1].family = "long" /\ Returned(1)) =>
         IF DecodedSize(caller[1].input) + 1 > MAX_STRING_SIZE
         THEN Failed(1) /\ P[1].error.kind = "String too long"
         ELSE Succeeded(1)
\* ---------------------------------------------------------------------------
\* Number tokens about as long as the token buffer
\* ---------------------------------------------------------------------------
NumSlack == 2
DigitCounts == (MAX_NUMBER_SIZE - 1 - NumSlack - 2)..(MAX_NUMBER_SIZE - 1 + NumSlack)
NumberSuffixes ==
    { <<>>, <<ChDOT, Ch0 + 5>>, <<Che, Ch0 + 1>>, <<Che, ChPLUS, Ch0 + 1>>,
      <<ChUpE, ChMINUS, Ch0 + 2>>, <<ChDOT>>, <<Che, ChPLUS>> }
LongNumber(sign, n, suffix) == sign \o Repeat(<<Ch0 + 1>>, n) \o suffix
LongNumberInputs ==
    {LongNumber(sign, n, suffix) :
        sign \in {<<>>, <<ChMINUS>>}, n \in DigitCounts, suffix \in NumberSuffixes}
    \cup {<<Ch0, ChDOT>> \o Repeat(<<Ch0 + 1>>, n) : n \in DigitCounts}
InitLongNumbers ==
    \/ InitBase
    \/ InitThreads("long_numbers", LongNumberInputs, {<<>>}, {NoInput}, TRUE, {0})
SpecLongNumbers == InitLongNumbers /\ [][Next]_vars

\* the call of thread t is over: it returned, or the process was ended in it
Ended(t) == stack[t] = <<>> /\ caller[t].pc \in {"parse", "aborted"}

MaxGood == 2
\* what stands where a key is expected, and what may follow it
NotAKey ==
    { Digit(1), LitTrue, LitNull, <<ChLBRACKET, ChRBRACKET>>, <<ChLBRACE, ChRBRACE>>,
      <<ChRBRACE>>, <<ChCOLON>>, <<Cha>>, <<>> }
AfterKey == { <<>>, <<ChCOLON, Ch0 + 1, ChRBRACE>> }
GoodPairs(k) == Concat([i \in 1..k |-> MemberText(<<Cha>>, Digit(i)) \o <<ChCOMMA>>])
BadKeyObject(k, sp, token, rest) == <<ChLBRACE>> \o GoodPairs(k) \o sp \o token \o rest
BadKeyObjects ==
    {BadKeyObject(k, sp, token, rest) :
        k \in 0..MaxGood, sp \in {<<>>, <<ChSP, ChLF>>}, token \in NotAKey, rest \in AfterKey}
    \ {BadKeyObject(0, sp, <<ChRBRACE>>, rest) : sp \in {<<>>, <<ChSP, ChLF>>}, rest \in AfterKey}
BadKeyInputs == BadKeyObjects \cup {<<ChLBRACKET>> \o x : x \in BadKeyObjects}
InitKeys ==
    \/ InitBase
    \/ InitWith("bad_keys", BadKeyInputs, {0})
SpecKeys == InitKeys /\ [][Next]_vars

\* the number of complete pairs written before the first key position that
\* holds no string: the commas of the input that follow a pair
PairsBefore(input) ==
    Cardinality({i \in 2..Len(input) : input[i] = ChCOMMA /\ input[i - 1] \in Ch0..Ch9})

\* C20: when the token at a key position -- after the opening brace of a
\* non-empty object or after a comma -- does not start with a double quote,
\* the parse fails with "Expected string key", everything the object held is
\* released, and the object never gets a pair for that position
C20_NonStringKey ==
    /\ (caller[1].family = "bad_keys" /\ Returned(1)) =>
         /\ Failed(1)
         /\ P[1].error.kind = "Expected string key"
         /\ Surfaced = "Expected string key"
         /\ \A a \in 1..Len(heap) : heap[a].frees = 1
         /\ viol = {}
    /\ caller[1].family = "bad_keys" =>
         \A a \in 1..Len(heap) :
             heap[a].type = JSON_OBJECT => heap[a].count <= PairsBefore(caller[1].input)
\* an object of two pairs was released at a third key that is a number
C20_Witness ==
    /\ caller[1].family = "bad_keys" /\ Failed(1)
    /\ caller[1].input = BadKeyObject(2, <<>>, Digit(1), <<ChCOLON, Ch0 + 1, ChRBRACE>>)
    /\ heap[1].type = JSON_OBJECT /\ heap[1].count = 2 /\ heap[1].frees = 1
    /\ P[1].error.kind = "Expected string key"
\* ---------------------------------------------------------------------------
\* Diagnostics
\* ---------------------------------------------------------------------------
\* the diagnostic in parser->error names an error kind and the scanner's
\* line and column
Diagnosed(p) ==
    /\ p.error.kind # ""
    /\ p.error.line = p.line
    /\ p.error.column = p.column

\* C21: whenever json_parse has failed -- syntax error, depth exceeded,
\* trailing data or a failed allocation -- parser->error holds a diagnostic
\* that names an error kind with the scanner's line and column at the failure
C21_FailureDiagnosed ==
    \A t \in Threads : Failed(t) => Diagnosed(P[t])
\* ---------------------------------------------------------------------------
\* Container storage: arrays and objects whose element count is around each
\* capacity the storage passes through, of scalars and of empty containers
\* ---------------------------------------------------------------------------
Doublings == 2
Pow2(k) == 2 ^ k
Capacities == {INITIAL_CAPACITY * Pow2(k) : k \in 0..(Doublings + 1)}
GrowCounts ==
    UNION {{INITIAL_CAPACITY * Pow2(k) - 1, INITIAL_CAPACITY * Pow2(k),
            INITIAL_CAPACITY * Pow2(k) + 1} : k \in 0..(Doublings - 1)}
ArrayOfElems(n, e) ==
    <<ChLBRACKET>> \o e \o Repeat(<<ChCOMMA>> \o e, n - 1) \o <<ChRBRACKET>>
ObjectOfElems(n, e) ==
    <<ChLBRACE>> \o Q(<<Cha>>) \o <<ChCOLON>> \o e
    \o Repeat(<<ChCOMMA>> \o Q(<<Cha>>) \o <<ChCOLON>> \o e, n - 1) \o <<ChRBRACE>>
GrowElems == {<<Ch0 + 1>>, <<ChLBRACKET, ChRBRACKET>>, <<ChLBRACE, ChRBRACE>>}
GrowInputs ==
    {ArrayOfElems(n, e) : n \in GrowCounts, e \in GrowElems}
    \cup {ObjectOfElems(n, e) : n \in GrowCounts, e \in GrowElems}

InitGrow ==
    \/ InitBase
    \/ InitThreads("grow", GrowInputs, {<<>>}, {NoInput}, TRUE, {0, 1})
SpecGrow == InitGrow /\ [][Next]_vars

\* a is an array or object node of heap h that has not been released
IsLiveContainer(h, a) ==
    h[a].kind = "value" /\ h[a].type \in {JSON_ARRAY, JSON_OBJECT} /\ h[a].frees = 0
\* the items / pairs storage of container a
Storage(h, a) == h[h[a].ptr]

\* count <= capacity, the capacity is 16 * 2^k and is the size of the
\* storage, and nothing was written outside a storage
C22_Shape ==
    /\ \A a \in 1..Len(heap) :
          IsLiveContainer(heap, a) =>
            /\ heap[a].count <= heap[a].capacity
            /\ heap[a].capacity \in Capacities
            /\ Storage(heap, a).frees = 0
            /\ Len(Storage(heap, a).data) = heap[a].capacity
    /\ "heap_buffer_overflow" \notin viol

\* a new container starts empty at INITIAL_CAPACITY; a step changes a
\* capacity only by doubling it while appending to a full container; the
\* elements stored keep their indices
C22_Change ==
    \A a \in 1..Len(heap') :
        IsLiveContainer(heap', a) =>
          IF a > Len(heap)
          THEN heap'[a].capacity = INITIAL_CAPACITY /\ heap'[a].count = 0
          ELSE /\ IsLiveContainer(heap, a)
               /\ \/ heap'[a].capacity = heap[a].capacity
                  \/ /\ heap'[a].capacity = 2 * heap[a].capacity
                     /\ heap[a].count = heap[a].capacity
                     /\ heap'[a].count = heap[a].count + 1
               /\ heap'[a].count \in {heap[a].count, heap[a].count + 1}
               /\ \A i \in 1..heap[a].count :
                     Storage(heap', a).data[i] = Storage(heap, a).data[i]

\* C22: container storage -- in every state of a parse and in every returned
\* tree each array and object has count <= capacity; the capacity starts at
\* INITIAL_CAPACITY and changes only by doubling when an element is appended
\* to a full container, so it is always 16 * 2^k; elements keep their indices
\* across growth and none is written at an index >= capacity
C22_Storage == []C22_Shape /\ [][C22_Change]_vars

\* a returned object of 33 pairs, each holding an empty array: its storage
\* has doubled twice while the arrays inside stayed at INITIAL_CAPACITY
C22_Witness ==
    /\ Succeeded(1) /\ caller[1].family = "grow"
    /\ heap[ret[1]].type = JSON_OBJECT
    /\ heap[ret[1]].count = 2 * INITIAL_CAPACITY + 1
    /\ heap[ret[1]].capacity = 4 * INITIAL_CAPACITY
    /\ \A i \in 1..heap[ret[1]].count :
          LET v == Storage(heap, ret[1]).data[i].value
          IN heap[v].type = JSON_ARRAY /\ heap[v].capacity = INITIAL_CAPACITY
\* ---------------------------------------------------------------------------
\* Termination.  A call ends when a measure that every step of the call
\* decreases runs out: the input left, then the program points left to the
\* frames on the stack before one of them consumes or returns.
\* ---------------------------------------------------------------------------
\* thread t is inside a json_parse call
Called(t) == stack[t] # <<>>

\* how many steps a frame can take before it consumes, calls or returns
FrameRank(f) ==
    CASE f.fn = "json_parse" -> IF f.pc = "entry" THEN 11 ELSE 1
      [] f.fn = "parse_value" -> 9
      [] f.fn = "parse_number" ->
           (CASE f.pc = "entry" -> 8 [] f.pc = "int" -> 7 [] f.pc = "frac" -> 6
              [] f.pc = "fracloop" -> 5 [] f.pc = "exp" -> 4 [] f.pc = "exploop" -> 3
              [] OTHER -> 2)
      [] f.pc = "entry" -> 8
      [] f.fn = "parse_string" -> 7
      [] OTHER -> 1
Rank(stk) ==
    LET n(r) == Cardinality({i \in 1..Len(stk) : FrameRank(stk[i]) = r})
    IN n(1) + 2 * n(2) + 3 * n(3) + 4 * n(4) + 5 * n(5) + 6 * n(6) + 7 * n(7)
       + 8 * n(8) + 9 * n(9) + 11 * n(11)

\* the input bytes the call has not consumed
Remaining(p, stk) ==
    IF stk # <<>> /\ stk[1].pc = "entry" THEN strlen(stk[1].buf)
    ELSE p.length - p.position

\* thread t takes a step of its call
Moves(t) == Called(t) /\ <<P[t], stack[t], ret[t]>>' # <<P[t], stack[t], ret[t]>>

\* the step consumes input, or else leaves fewer program points to go; the
\* cursor stays within the input; and the call ends only by returning
C23_CallStep ==
    \A t \in Threads :
        Moves(t) =>
          LET left == Remaining(P[t], stack[t])
              left2 == Remaining(P'[t], stack'[t])
          IN /\ left2 >= 0
             /\ left2 < left \/ (left2 = left /\ Rank(stack'[t]) < Rank(stack[t]))
             /\ stack'[t] = <<>> => caller'[t].pc \in {"parse", "reparse", "again"}

\* a step that stays in a loop of a production: the digit loops of
\* parse_number and the decoding loop of parse_string go round (same
\* function, same pc), the loops of parse_array and parse_object call for
\* their next element
LoopsOn(t) ==
    /\ Moves(t) /\ stack'[t] # <<>>
    /\ \/ /\ Top(t).fn \in {"parse_number", "parse_string"}
          /\ Len(stack'[t]) = Len(stack[t])
          /\ stack'[t][Len(stack[t])].fn = Top(t).fn
          /\ stack'[t][Len(stack[t])].pc = Top(t).pc
       \/ /\ Top(t).fn \in {"parse_array", "parse_object"}
          /\ Top(t).pc # "entry"
          /\ Len(stack'[t]) = Len(stack[t]) + 1
\* every iteration of a loop consumes at least one input byte
C23_LoopsConsume ==
    \A t \in Threads : LoopsOn(t) => P'[t].position > P[t].position

LineFeedsBefore(p) == {i \in 0..(p.position - 1) : InputAt(p, i) = ChLF}
\* the index of the first byte of the cursor's line
LineStart(p) ==
    IF LineFeedsBefore(p) = {} THEN 0
    ELSE 1 + CHOOSE i \in LineFeedsBefore(p) : \A j \in LineFeedsBefore(p) : j <= i

\* C24: line and column track the cursor under one 1-based convention -- at
\* every point of a parse, line is 1 plus the number of LF bytes before the
\* cursor and column is 1 plus the number of bytes between the start of the
\* cursor's line (after the last LF, or the start of the input) and the cursor
C24_LineColumn ==
    \A t \in Threads :
        /\ P[t].line = 1 + Cardinality(LineFeedsBefore(P[t]))
        /\ P[t].column = 1 + (P[t].position - LineStart(P[t]))
\* ---------------------------------------------------------------------------
\* String literals the input ends in: every cut of a well-formed body, as a
\* value and as the first key of an object
\* ---------------------------------------------------------------------------
WholeBodies ==
    { <<Cha, Chb, ChBACKSLASH, Chn, Cha>>,
      <<Cha, ChBACKSLASH, Chu, Ch0, Ch0, Che, Ch9, Chb>>,
      <<ChBACKSLASH, Chu, Ch0 + 2, Ch0, ChUpA, Ch0 + 3>>,
      <<ChBACKSLASH, ChQUOTE, ChBACKSLASH, ChBACKSLASH>> }
CutBodies == UNION {{SubSeq(body, 1, k) : k \in 0..Len(body)} : body \in WholeBodies}
UnclosedInputs ==
    {<<ChQUOTE>> \o b : b \in CutBodies} \cup {<<ChLBRACE, ChQUOTE>> \o b : b \in CutBodies}
InitUnclosed ==
    \/ InitBase
    \/ InitWith("unclosed", UnclosedInputs, {0})
SpecUnclosed == InitUnclosed /\ [][Next]_vars

\* the decode buffers of the call of thread t
DecodeBuffers(t) == {a \in CallBlocks(t) : heap[a].kind = "chars"}

\* C25: when the input ends before the closing quote of a string literal --
\* after plain characters, directly after a backslash or inside a \uXXXX
\* escape -- the parse fails with "Unterminated string" and the decode buffer
\* has been released
C25_Unterminated ==
    (caller[1].family = "unclosed" /\ Returned(1)) =>
        /\ Failed(1)
        /\ P[1].error.kind = "Unterminated string"
        /\ DecodeBuffers(1) # {}
        /\ \A a \in DecodeBuffers(1) : heap[a].frees = 1
\* ---------------------------------------------------------------------------
\* The number token buffer
\* ---------------------------------------------------------------------------
\* the activations of parse_number on the stack of thread t
NumberFrames(t) == {i \in 1..Len(stack[t]) : stack[t][i].fn = "parse_number"}

\* C26: parse_number writes the token characters and the terminating NUL at
\* the indices 0..MAX_NUMBER_SIZE-1 of its buffer only: no activation has
\* stored more than MAX_NUMBER_SIZE bytes, and no store past the array has
\* happened
C26_BufferInBounds ==
    /\ \A t \in Threads : \A i \in NumberFrames(t) : Len(stack[t][i].buf) <= MAX_NUMBER_SIZE
    /\ "stack_buffer_overflow" \notin viol
\* ---------------------------------------------------------------------------
\* Propagation of the first failure
\* ---------------------------------------------------------------------------
\* a diagnostic has been recorded in the running call of thread t (the Parser
\* of a call exists from the first step of json_parse on)
Recorded(t) ==
    /\ Called(t)
    /\ ~(Len(stack[t]) = 1 /\ Top(t).pc = "entry")
    /\ P[t].error.kind # ""

Nodes(h) == {a \in 1..Len(h) : h[a].kind = "value"}

\* after the diagnostic: no byte consumed, no node created
UnwindStep(t) ==
    (Recorded(t) /\ Moves(t)) =>
        /\ P'[t].position = P[t].position
        /\ Nodes(heap') = Nodes(heap)

\* after the diagnostic: it stays what it is
KeepsDiagnostic(t) == (Recorded(t) /\ Moves(t)) => P'[t].error = P[t].error

\* the diagnostic json_parse prints is the one recorded
ReportsDiagnostic(t) ==
    (Recorded(t) /\ Moves(t) /\ stack'[t] = <<>>) =>
        /\ ret'[t] = NULL
        /\ stderr' = Append(stderr, P[t].error)

\* C27: first failure wins: once a production has recorded its diagnostic the
\* parse consumes no further input and creates no further node, no enclosing
\* production overwrites the diagnostic while unwinding (also not for a
\* failure inside an object key), and json_parse reports that diagnostic
C27_FirstFailureWins ==
    [][\A t \in Threads : UnwindStep(t) /\ KeepsDiagnostic(t) /\ ReportsDiagnostic(t)]_vars
\* ---------------------------------------------------------------------------
\* Nesting and siblings: more containers than MAX_DEPTH side by side, at the
\* outermost level and at the innermost level the bound allows, with brackets
\* inside strings, and the same inputs cut off; the program only validates
\* ---------------------------------------------------------------------------
SiblingSlack == 2
SiblingCounts == (MAX_DEPTH + 1)..(MAX_DEPTH + SiblingSlack)
EmptyArray == <<ChLBRACKET, ChRBRACKET>>
EmptyObject == <<ChLBRACE, ChRBRACE>>
BracketString == Q(<<ChLBRACKET, ChBACKSLASH, ChQUOTE, ChLBRACE, ChBACKSLASH, ChBACKSLASH>>)
Wide(n) ==
    { ArrayOfElems(n, EmptyArray), ArrayOfElems(n, EmptyObject),
      ObjectOfElems(n, EmptyArray), ObjectOfElems(n, EmptyObject) }
WithBracketStrings ==
    { ArrayOfElems(2, <<ChLBRACKET>> \o BracketString \o <<ChRBRACKET>>),
      ObjectOfElems(2, <<ChLBRACE>> \o BracketString \o <<ChCOLON>> \o BracketString
                         \o <<ChRBRACE>>) }
WideAtLimit(n) ==
    { Nested("arrays", MAX_DEPTH - 2, ArrayOfElems(n, EmptyArray)),
      Nested("object_first", MAX_DEPTH - 2, ObjectOfElems(n, EmptyObject)) }
WidePastLimit(n) ==
    { Nested("arrays", MAX_DEPTH - 1, ArrayOfElems(n, EmptyArray)) }
CutShort(x) == {SubSeq(x, 1, Len(x) - k) : k \in 1..3}
SiblingValid == WithBracketStrings \cup UNION {Wide(n) \cup WideAtLimit(n) : n \in SiblingCounts}
SiblingInvalid ==
    UNION {WidePastLimit(n) : n \in SiblingCounts}
    \cup UNION {CutShort(x) : x \in Wide(MAX_DEPTH + 1) \cup WithBracketStrings}
InitSiblings ==
    \/ InitBase
    \/ InitThreads("siblings", SiblingValid, {<<>>}, {NoInput}, TRUE, {0})
    \/ InitThreads("cut_siblings", SiblingInvalid, {<<>>}, {NoInput}, TRUE, {0})
SpecSiblings == InitSiblings /\ [][Next]_vars

\* the quotes among the first n bytes of x that open or close a string: those
\* after an even number of backslashes
BackslashesBefore(x, i) ==
    IF i = 1 \/ x[i - 1] # ChBACKSLASH THEN 0
    ELSE Cardinality({k \in 1..(i - 1) : \A m \in 1..k : x[i - m] = ChBACKSLASH})
StringQuotes(x, n) == {i \in 1..n : x[i] = ChQUOTE /\ BackslashesBefore(x, i) % 2 = 0}

\* the containers open around the cursor: the brackets outside strings among
\* the bytes consumed, openers less closers
OpenAround(p) ==
    LET x == p.input
        n == p.position
        quotes == StringQuotes(x, n)
        brackets == {j \in 1..n : x[j] \in {ChLBRACKET, ChLBRACE, ChRBRACKET, ChRBRACE}}
        outside == {j \in brackets : Cardinality({q \in quotes : q < j}) % 2 = 0}
    IN Cardinality({j \in outside : x[j] \in {ChLBRACKET, ChLBRACE}})
       - Cardinality({j \in outside : x[j] \in {ChRBRACKET, ChRBRACE}})

C28_Nesting ==
    \A t \in Threads :
        /\ 0 <= P[t].depth /\ P[t].depth <= MAX_DEPTH + 1
        /\ P[t].depth = OpenAround(P[t])
        /\ Succeeded(t) => P[t].depth = 0
        /\ (caller[t].family = "siblings" /\ Returned(t) /\ NoAllocFailure(t)) => Succeeded(t)

\* a step in which a call of parse_array or parse_object returns its
\* container: the counter is what it was when the call was entered, which is
\* the number of the enclosing container calls
ContainerReturns(t) ==
    /\ stack[t] # <<>> /\ Top(t).fn \in {"parse_array", "parse_object"}
    /\ stack'[t] = Rest(t)
    /\ ret'[t] # NULL
C28_Restored ==
    \A t \in Threads :
        ContainerReturns(t) =>
            /\ P'[t].depth = Cardinality(OpenContainers(t) \ {Len(stack[t])})
            /\ Top(t).pc = "entry" => P'[t].depth = P[t].depth
            /\ Top(t).pc # "entry" => P'[t].depth = P[t].depth - 1

\* C28: depth measures nesting, not the number of containers: it stays within
\* 0..MAX_DEPTH+1, equals the number of containers open around the cursor,
\* is restored by every successful return of parse_array and parse_object,
\* and is 0 when json_parse succeeds; inputs with more than MAX_DEPTH sibling
\* containers, none nested deeper than MAX_DEPTH, parse
C28_DepthIsNesting == []C28_Nesting /\ [][C28_Restored]_vars

\* an array of MAX_DEPTH + 2 empty arrays has been parsed, and so has one
\* lying MAX_DEPTH - 1 containers deep
C28_Witness ==
    /\ Succeeded(1) /\ caller[1].family = "siblings" /\ P[1].depth = 0
    /\ heap[ret[1]].type = JSON_ARRAY
    /\ \E a \in ContainersMade(1) :
          /\ heap[a].count = MAX_DEPTH + SiblingSlack
          /\ \A i \in 1..heap[a].count :
                LET item == Storage(heap, a).data[i]
                IN heap[item].type = JSON_ARRAY /\ heap[item].count = 0
    /\ Cardinality(ContainersMade(1)) = MAX_DEPTH - 1 + MAX_DEPTH + SiblingSlack
\* ---------------------------------------------------------------------------
\* Conversations for the extractor: at most MaxMessages messages, each with at
\* most MaxItems attachments and MaxItems file references; an attachment may
\* lack its name, its content or its type, a file reference its name
\* ---------------------------------------------------------------------------
MaxMessages == 2
MaxItems == 2
Attachments ==
    { Attached,
      [Attached EXCEPT !.file_type = NoMember],
      [Attached EXCEPT !.extracted_content = NoMember],
      [Attached EXCEPT !.file_name = JSON_NUMBER] }
FileRefs == {Referenced, [file_name |-> NoMember]}
Messages ==
    {NotAnObject} \cup
    {[attachments |-> a, files |-> f, object |-> TRUE] :
        a \in SeqsUpTo(Attachments, MaxItems), f \in SeqsUpTo(FileRefs, MaxItems)}
Conversations == SeqsUpTo(Messages, MaxMessages)
InitManifest ==
    \/ InitBase
    \/ InitExtract("conversations", Conversations)
SpecManifest == InitManifest /\ [][Next]_vars

\* the manifest of thread t is complete, and how many entries of a type it has
Extracted(t) == caller[t].pc = "extracted"
Written(t, type) ==
    Len(SelectSeq(caller[t].ctx.manifest, LAMBDA e : e.type = type))
Statistics(t) == Last(caller[t].ctx.manifest)

\* C29: the statistics of the manifest match what was written: total_artifacts
\* is the number of attachment entries and external_references the number of
\* external_reference entries in the artifacts list
C29_ManifestStatistics ==
    \A t \in Threads :
        Extracted(t) =>
            /\ Statistics(t).total_artifacts = Written(t, "attachment")
            /\ Statistics(t).external_references = Written(t, "external_reference")
\* ---------------------------------------------------------------------------
\* Inputs that end anywhere: every prefix of texts with the three literals, a
\* full number, strings with short and \u escapes, and containers
\* ---------------------------------------------------------------------------
WholeTexts ==
    { LitNull, LitTrue, LitFalse,
      <<ChMINUS, Ch0 + 1, Ch0, ChDOT, Ch0 + 5, Che, ChPLUS, Ch0 + 2>>,
      <<Ch0, ChDOT, Ch0, ChUpE, ChMINUS, Ch0 + 1>>,
      Q(<<Cha, ChBACKSLASH, Chn, ChBACKSLASH, Chu, Ch0, Ch0, Che, Ch9>>),
      Q(<<ChBACKSLASH, Chu, Ch0 + 2, Ch0, ChUpA, Ch0 + 3, Chb>>),
      <<ChLBRACKET, ChSP>> \o LitTrue \o <<ChCOMMA, ChLF>> \o LitFalse \o <<ChRBRACKET>>,
      <<ChLBRACE>> \o Q(<<ChBACKSLASH, Chu, Ch0, Ch0, Ch0 + 4, Ch0 + 1>>) \o <<ChCOLON>>
          \o LitNull \o <<ChCOMMA>> \o Q(<<Chb>>) \o <<ChCOLON, ChMINUS, Ch0, ChRBRACE, ChSP>> }
Prefixes(x) == {SubSeq(x, 1, k) : k \in 0..Len(x)}
CutInputs == UNION {Prefixes(x) : x \in WholeTexts}
InitCursor ==
    \/ InitBase
    \/ InitWith("cut", CutInputs, {0})
SpecCursor == InitCursor /\ [][Next]_vars

\* the call of thread t has its Parser (json_parse has taken its first step)
Parsing(t) == Called(t) /\ ~(Len(stack[t]) = 1 /\ Top(t).pc = "entry")

\* the hex digits the \u loop reads from index i on: it tests the bound before
\* each and stops at the first that is none
HexReads(p, i) ==
    {j \in i..(i + 3) :
        /\ j < p.length
        /\ \A k \in i..(j - 1) : parse_hex_digit(InputAt(p, k)) >= 0}

\* the indices of the input the next step of thread t reads
ReadsOf(t) ==
    LET p == P[t]
        pos == p.position
        fits(n) == pos + n <= p.length
    IN CASE Running(t, "parse_null") ->
              IF fits(4) THEN pos..(pos + 3) ELSE {}
         [] Running(t, "parse_boolean") ->
              IF fits(4) /\ MatchLit(p, LitTrue) THEN pos..(pos + 3)
              ELSE (IF fits(4) THEN pos..(pos + 3) ELSE {})
                   \cup (IF fits(5) THEN pos..(pos + 4) ELSE {})
         [] Running(t, "parse_number") /\ Top(t).pc = "entry" -> {pos}
         [] Running(t, "parse_string") /\ Top(t).pc = "loop" ->
              IF pos >= p.length THEN {}
              ELSE IF Cur(p) # ChBACKSLASH THEN {pos}
              ELSE IF pos + 1 >= p.length THEN {pos}
              ELSE IF InputAt(p, pos + 1) # Chu THEN {pos, pos + 1}
              ELSE {pos, pos + 1} \cup HexReads(p, pos + 2)
         [] OTHER -> {}

C30_Inside ==
    \A t \in Threads :
        /\ 0 <= P[t].position /\ P[t].position <= P[t].length
        /\ \A i \in ReadsOf(t) : 0 <= i /\ i < P[t].length
        /\ (Running(t, "parse_number") /\ Top(t).pc = "entry") =>
              Cur(P[t]) = ChMINUS \/ isdigit(Cur(P[t]))

C30_Forward ==
    \A t \in Threads : (Parsing(t) /\ Moves(t)) => P'[t].position >= P[t].position

\* C30: the cursor stays inside the input: 0 <= position <= length at every
\* step, every byte read is at an index below length (the literals after the
\* test that they fit, the first byte of a number after the dispatcher has
\* seen it, each hex digit of \u after the bound test), and position never
\* decreases from one step to the next: the step back inside the \u escape
\* is undone before the iteration ends
C30_CursorInside == []C30_Inside /\ [][C30_Forward]_vars

\* an input that ends with the last hex digit of a \u escape has been read to
\* its end, and the escape was decoded
C30_Witness ==
    /\ caller[1].family = "cut" /\ Failed(1)
    /\ P[1].position = P[1].length /\ P[1].length >= 7
    /\ P[1].input[P[1].length - 5] = ChBACKSLASH /\ P[1].input[P[1].length - 4] = Chu
    /\ P[1].error.kind = "Unterminated string"

====
